---- MODULE Spec2Model ----
(***************************************************************************)
(* Model of the hybrid message classifier: the rule classifier             *)
(* (src/heuristics/classifier.js, patterns.js), the completeness gate, the *)
(* hint and prompt builders (src/prompts.js), the response validator       *)
(* (src/schema.js), the similarity retriever (src/utils/embeddings.js) and *)
(* the POST /classify handler (server.js).                                 *)
(*                                                                         *)
(* Conventions.                                                            *)
(*  - A JavaScript value is a tagged record: Null, Num(x), Bool(b),        *)
(*    Str(s), Obj(f).  A missing key (undefined) is a key that is not in   *)
(*    the DOMAIN of the object's field function.                           *)
(*  - Scores and confidences are held in hundredths: 0.0, 0.25, 0.4, 0.5,  *)
(*    0.7, 1.0 are 0, 25, 40, 50, 70, 100.  The sums of 0.25 the code      *)
(*    forms are exact in binary floating point.                            *)
(*  - A text is a sequence of tokens.  A token is a word (a maximal run of *)
(*    \w characters), a punctuation mark, a run of whitespace or a control *)
(*    character.  Two adjacent word tokens are separated by one space.     *)
(*    A regular expression of the pattern table is the set of the words    *)
(*    and of the phrases (sequences of words) its alternatives match.      *)
(***************************************************************************)
EXTENDS Integers, Sequences, FiniteSets, TLC

VARIABLES
    corpus,           \* examplesWithEmbeddings, loaded at module initialisation
    pc,               \* position of the /classify handler
    message,          \* req.body.message
    sanitizedMessage, \* validation.sanitized
    heuristic,        \* result of heuristicClassify
    similarExamples,  \* handler local
    usedEmbeddings,   \* handler local
    hints,            \* handler local
    userPrompt,       \* handler local
    completion,       \* outcome of openai.chat.completions.create, once settled
    rawResponse,      \* JSON.parse(completion.choices[0].message.content)
    classification,   \* validateClassification(rawResponse)
    responses,        \* the responses sent with res.json, in order
    embedCalls,       \* number of openai.embeddings.create calls issued
    llmCalls,         \* number of openai.chat.completions.create calls issued
    embedFailed,      \* history: the embedding call of this request rejected
    msgEmbedding,     \* handler local messageEmbedding: what getEmbedding resolved with
    requests,         \* the handler invocations in flight (concurrent requests)
    fnIn,             \* input of the function under test (function specs)
    fnOut             \* its result

vars == <<corpus, pc, message, sanitizedMessage, heuristic, similarExamples,
          usedEmbeddings, hints, userPrompt, completion, rawResponse,
          classification, responses, embedCalls, llmCalls, embedFailed,
          msgEmbedding, requests, fnIn, fnOut>>

(***************************************************************************)
(* Bounds of the model.                                                    *)
(***************************************************************************)
\* longest message (in tokens) given to the rule classifier on its own
MaxLen == 3
\* longest message (in tokens) of a pair of messages classified side by side
MaxPairLen == 2
\* largest number of examples of a corpus given to the retriever on its own
MaxCorpus == 4
\* longest message (in tokens) sent through the /classify handler
MaxPipeLen == 3

(***************************************************************************)
(* JavaScript values.                                                      *)
(***************************************************************************)
Null == [t |-> "null", n |-> 0, s |-> ""]

Num(x) == [t |-> "number", n |-> x, s |-> ""]

Bool(b) == [t |-> "boolean", n |-> IF b THEN 1 ELSE 0, s |-> ""]

Str(x) == [t |-> "string", n |-> 0, s |-> x]

Obj(f) == [t |-> "object", n |-> 0, s |-> "", o |-> f]

\* the object with no key
EmptyFields == [k \in {} |-> Null]

Min(a, b) == IF a <= b THEN a ELSE b

\* all sequences over S of length at most n
RECURSIVE SeqsUpTo(_, _)
SeqsUpTo(S, n) ==
    IF n = 0 THEN {<< >>}
    ELSE LET shorter == SeqsUpTo(S, n - 1)
         IN  shorter \cup {Append(q, x) : q \in {r \in shorter : Len(r) = n - 1}, x \in S}

(***************************************************************************)
(* Texts.                                                                  *)
(***************************************************************************)
\* String.prototype.toLowerCase on one token: the tokens of the model that
\* hold an upper-case letter, each with its lower-case form.
LowerTok(tok) ==
    CASE tok = "ASAP" -> "asap"
      [] tok = "Asap" -> "asap"
      [] tok = "Today" -> "today"
      [] tok = "Love" -> "love"
      [] tok = "Need" -> "need"
      [] tok = "Can" -> "can"
      [] tok = "Friday" -> "friday"
      [] tok = "By" -> "by"
      [] tok = "Book" -> "book"
      [] tok = "Thanks" -> "thanks"
      [] tok = "Your" -> "your"
      [] tok = "Tonight" -> "tonight"
      [] tok = "I" -> "i"
      [] OTHER -> tok

toLowerCase(text) == [i \in DOMAIN text |-> LowerTok(text[i])]

\* regex.test(lower) for a regular expression given as the words and the
\* phrases its alternatives match
RegexTest(regex, lower) ==
    \E i \in DOMAIN lower :
        \/ lower[i] \in regex.words
        \/ \E p \in regex.phrases :
              /\ i + Len(p) - 1 <= Len(lower)
              /\ SubSeq(lower, i, i + Len(p) - 1) = p

\* (text) => !/\?/.test(text)
NoQuestion(text) == \A i \in DOMAIN text : text[i] # "?"

\* faulty variant: the condition of a pattern is never consulted
ConditionHolds_Unguarded(pattern, text) == TRUE

\* pattern.condition && !pattern.condition(text): the only condition of the
\* table is NoQuestion; "none" is a pattern without a condition
ConditionHolds(pattern, text) ==
    IF pattern.condition = "none" THEN TRUE ELSE NoQuestion(text)

(***************************************************************************)
(* The pattern table.                                                      *)
(***************************************************************************)
\* faulty variant: the Refund rule stands first in the tier
HIGH_VALUE_RefundFirst ==
    [score |-> 100,
     patterns |-> <<
       [regex |-> [words |-> {"refund"}, phrases |-> {}],
        type |-> "Refund", condition |-> "none"],
       [regex |-> [words |-> {"book", "booking", "reserve", "hire", "event", "gig",
                              "performance", "rate"},
                   phrases |-> {}],
        type |-> "Booking", condition |-> "none"],
       [regex |-> [words |-> {"invoice", "payment", "paid", "pay"}, phrases |-> {}],
        type |-> "Invoice", condition |-> "none"],
       [regex |-> [words |-> {"contract"}, phrases |-> {}],
        type |-> "Booking", condition |-> "none"] >>]

HIGH_VALUE ==
    [score |-> 100,
     patterns |-> <<
       [regex |-> [words |-> {"book", "booking", "reserve", "hire", "event", "gig",
                              "performance", "rate"},
                   phrases |-> {}],
        type |-> "Booking", condition |-> "none"],
       [regex |-> [words |-> {"invoice", "payment", "paid", "pay"}, phrases |-> {}],
        type |-> "Invoice", condition |-> "none"],
       [regex |-> [words |-> {"refund"}, phrases |-> {}],
        type |-> "Refund", condition |-> "none"],
       [regex |-> [words |-> {"contract"}, phrases |-> {}],
        type |-> "Booking", condition |-> "none"] >>]

\* collab\w*, partner\w*, sponsor\w*, promot\w*, suggest\w*, add\w* are given
\* by the stem and some of the words that start with it
MEDIUM_HIGH_VALUE ==
    [score |-> 70,
     patterns |-> <<
       [regex |-> [words |-> {"collab", "collaboration", "collaborate",
                              "partner", "partners", "partnership"},
                   phrases |-> {<<"work", "together">>}],
        type |-> "Collab", condition |-> "none"],
       [regex |-> [words |-> {"brand", "sponsor", "sponsorship", "campaign", "ambassador",
                              "promot", "promotion", "promote", "marketing"},
                   phrases |-> {}],
        type |-> "Brand reaching", condition |-> "none"],
       [regex |-> [words |-> {"feature", "request", "suggest", "suggestion", "add",
                              "adding", "address", "improvement", "bug", "issue"},
                   phrases |-> {}],
        type |-> "Feature", condition |-> "none"],
       [regex |-> [words |-> {"affiliate", "commission", "referral"}, phrases |-> {}],
        type |-> "Affiliate", condition |-> "none"] >>]

MEDIUM_VALUE ==
    [score |-> 40,
     patterns |-> <<
       [regex |-> [words |-> {"shop", "merch", "discount", "buy", "purchase"},
                   phrases |-> {}],
        type |-> "General", condition |-> "none"] >>]

LOW_VALUE ==
    [score |-> 0,
     patterns |-> <<
       [regex |-> [words |-> {"love", "amazing", "great", "awesome", "fantastic",
                              "excellent", "beautiful", "wonderful"},
                   phrases |-> {}],
        type |-> "General", condition |-> "noQuestion"] >>]

\* Object.values(BUSINESS_PATTERNS): the tiers in insertion order
BUSINESS_PATTERNS == <<HIGH_VALUE, MEDIUM_HIGH_VALUE, MEDIUM_VALUE, LOW_VALUE>>

DaysOfWeek ==
    {"monday", "tuesday", "wednesday", "thursday", "friday", "saturday", "sunday",
     "mon", "tue", "wed", "thu", "fri", "sat", "sun"}

\* faulty variant: the alternative by\s+(monday|...|sun) is left out
URGENT_NoDeadline ==
    [score |-> 100,
     regex |-> [words |-> {"today", "tonight", "asap", "urgent", "immediately",
                           "12/25", "5:30"},
                phrases |-> {<<"right", "now">>, <<"by", "end", "of", "day">>,
                             <<"by", "end", "of", "week">>}],
     condition |-> "none"]

\* \d{1,2}\/\d{1,2} and \d{1,2}:\d{2} are given by the tokens "12/25" and "5:30"
URGENT ==
    [score |-> 100,
     regex |-> [words |-> {"today", "tonight", "asap", "urgent", "immediately",
                           "12/25", "5:30"},
                phrases |-> {<<"right", "now">>, <<"by", "end", "of", "day">>,
                             <<"by", "end", "of", "week">>}
                            \cup {<<"by", d>> : d \in DaysOfWeek}],
     condition |-> "none"]

SOON ==
    [score |-> 70,
     regex |-> [words |-> {"soon", "confirm", "when", "deadline"},
                phrases |-> {<<"next", "week">>, <<"shipped", "yet">>}],
     condition |-> "none"]

PLANNING ==
    [score |-> 40,
     regex |-> [words |-> {"planning", "schedule", "rate", "timeline"},
                phrases |-> {<<"how", "long">>}],
     condition |-> "none"]

CASUAL ==
    [score |-> 0,
     regex |-> [words |-> {"love", "amazing", "great", "awesome", "fantastic", "excellent",
                           "beautiful", "wonderful", "thank", "thanks", "appreciate",
                           "congrat"},
                phrases |-> {}],
     condition |-> "noQuestion"]

\* the tiers of TIME_PATTERNS in insertion order
TIME_PATTERNS == <<URGENT, SOON, PLANNING, CASUAL>>

\* faulty variant: the question mark is not an alternative of the expression
NEEDS_REPLY_NoQuestionMark ==
    [value |-> TRUE,
     regex |-> [words |-> {"please", "confirm", "need", "interested", "available",
                           "needed", "confirmed", "pleased", "unavailable"},
                phrases |-> {<<"can", "you">>, <<"would", "you">>, <<"could", "you">>,
                             <<"let", "me", "know">>, <<"want", "to">>,
                             <<"can", "your">>}],
     condition |-> "none"]

\* The regular expression has no \b: an alternative matches inside a longer
\* word too ("needed", "confirmed", "pleased", "unavailable" stand for these).
NEEDS_REPLY ==
    [value |-> TRUE,
     regex |-> [words |-> {"?", "please", "confirm", "need", "interested", "available",
                           "needed", "confirmed", "pleased", "unavailable"},
                phrases |-> {<<"can", "you">>, <<"would", "you">>, <<"could", "you">>,
                             <<"let", "me", "know">>, <<"want", "to">>,
                             <<"can", "your">>}],
     condition |-> "none"]

NO_REPLY ==
    [value |-> FALSE,
     regex |-> [words |-> {"love", "thank", "thanks", "appreciate", "congrat", "awesome",
                           "amazing"},
                phrases |-> {<<"great", "work">>}],
     condition |-> "noQuestion"]

(***************************************************************************)
(* The rule classifier.                                                    *)
(***************************************************************************)
testPattern(pattern, text, lower) ==
    IF ~RegexTest(pattern.regex, lower) THEN FALSE
    ELSE IF ~ConditionHolds(pattern, text) THEN FALSE
    ELSE TRUE

\* for (const pattern of tier.patterns) if (testPattern(...)) return ...
TierMatches(tier, text, lower) ==
    \E i \in DOMAIN tier.patterns : testPattern(tier.patterns[i], text, lower)

\* faulty variant: the medium tier is tested before the medium-high tier
classifyBusinessValue_MediumFirst(text, lower) ==
    IF TierMatches(HIGH_VALUE, text, lower) THEN Num(HIGH_VALUE.score)
    ELSE IF TierMatches(MEDIUM_VALUE, text, lower) THEN Num(MEDIUM_VALUE.score)
    ELSE IF TierMatches(MEDIUM_HIGH_VALUE, text, lower) THEN Num(MEDIUM_HIGH_VALUE.score)
    ELSE IF TierMatches(LOW_VALUE, text, lower) THEN Num(LOW_VALUE.score)
    ELSE Null

classifyBusinessValue(text, lower) ==
    IF TierMatches(HIGH_VALUE, text, lower) THEN Num(HIGH_VALUE.score)
    ELSE IF TierMatches(MEDIUM_HIGH_VALUE, text, lower) THEN Num(MEDIUM_HIGH_VALUE.score)
    ELSE IF TierMatches(MEDIUM_VALUE, text, lower) THEN Num(MEDIUM_VALUE.score)
    ELSE IF TierMatches(LOW_VALUE, text, lower) THEN Num(LOW_VALUE.score)
    ELSE Null

\* the type of the first pattern of the sequence that matches, from index i on
RECURSIVE FirstMatchingType(_, _, _, _)
FirstMatchingType(patterns, i, text, lower) ==
    IF i > Len(patterns) THEN Null
    ELSE IF testPattern(patterns[i], text, lower) THEN Str(patterns[i].type)
    ELSE FirstMatchingType(patterns, i + 1, text, lower)

RECURSIVE FocusFromTier(_, _, _)
FocusFromTier(t, text, lower) ==
    IF t > Len(BUSINESS_PATTERNS) THEN Null
    ELSE LET found == FirstMatchingType(BUSINESS_PATTERNS[t].patterns, 1, text, lower)
         IN  IF found # Null THEN found ELSE FocusFromTier(t + 1, text, lower)

\* faulty variant: the tiers are walked from Low up to High
RECURSIVE FocusFromTierDown(_, _, _)
FocusFromTierDown(t, text, lower) ==
    IF t < 1 THEN Null
    ELSE LET found == FirstMatchingType(BUSINESS_PATTERNS[t].patterns, 1, text, lower)
         IN  IF found # Null THEN found ELSE FocusFromTierDown(t - 1, text, lower)

classifyFocusType_LowFirst(text, lower) ==
    FocusFromTierDown(Len(BUSINESS_PATTERNS), text, lower)

classifyFocusType(text, lower) == FocusFromTier(1, text, lower)

\* faulty variant: the Soon tier is tested before the Urgent tier
classifyTimeSensitivity_SoonFirst(text, lower) ==
    IF testPattern(SOON, text, lower) THEN Num(SOON.score)
    ELSE IF testPattern(URGENT, text, lower) THEN Num(URGENT.score)
    ELSE IF testPattern(PLANNING, text, lower) THEN Num(PLANNING.score)
    ELSE IF testPattern(CASUAL, text, lower) THEN Num(CASUAL.score)
    ELSE Null

classifyTimeSensitivity(text, lower) ==
    IF testPattern(URGENT, text, lower) THEN Num(URGENT.score)
    ELSE IF testPattern(SOON, text, lower) THEN Num(SOON.score)
    ELSE IF testPattern(PLANNING, text, lower) THEN Num(PLANNING.score)
    ELSE IF testPattern(CASUAL, text, lower) THEN Num(CASUAL.score)
    ELSE Null

\* faulty variant: the no-reply trigger is tested before the needs-reply trigger
classifyReplyNeeded_NoReplyFirst(text, lower) ==
    IF testPattern(NO_REPLY, text, lower) THEN Bool(NO_REPLY.value)
    ELSE IF testPattern(NEEDS_REPLY, text, lower) THEN Bool(NEEDS_REPLY.value)
    ELSE Null

classifyReplyNeeded(text, lower) ==
    IF testPattern(NEEDS_REPLY, text, lower) THEN Bool(NEEDS_REPLY.value)
    ELSE IF testPattern(NO_REPLY, text, lower) THEN Bool(NO_REPLY.value)
    ELSE Null

heuristicClassify(text) ==
    LET lower == toLowerCase(text)
    IN  [business_value_score |-> classifyBusinessValue(text, lower),
         time_sensitive_score |-> classifyTimeSensitivity(text, lower),
         needs_reply |-> classifyReplyNeeded(text, lower),
         focus_summary_type |-> classifyFocusType(text, lower),
         reason |-> Null]

(***************************************************************************)
(* The completeness gate.                                                  *)
(***************************************************************************)
\* a JavaScript value is truthy
Truthy(v) ==
    /\ v.t # "null"
    /\ v.t \in {"number", "boolean"} => v.n # 0
    /\ v.t = "string" => v.s # ""

\* faulty variant: the fields are tested for truthiness, not against null
isHeuristicConclusive_Truthy(h) ==
    /\ Truthy(h.business_value_score)
    /\ Truthy(h.time_sensitive_score)
    /\ Truthy(h.needs_reply)
    /\ Truthy(h.focus_summary_type)

isHeuristicConclusive(h) ==
    /\ h.business_value_score # Null
    /\ h.time_sensitive_score # Null
    /\ h.needs_reply # Null
    /\ h.focus_summary_type # Null

\* faulty variant: the fourth field is left out of the sum
getHeuristicConfidence_ThreeFields(h) ==
    LET c0 == 0
        c1 == IF h.business_value_score # Null THEN c0 + 25 ELSE c0
        c2 == IF h.time_sensitive_score # Null THEN c1 + 25 ELSE c1
        c3 == IF h.needs_reply # Null THEN c2 + 25 ELSE c2
    IN  c3

getHeuristicConfidence(h) ==
    LET c0 == 0
        c1 == IF h.business_value_score # Null THEN c0 + 25 ELSE c0
        c2 == IF h.time_sensitive_score # Null THEN c1 + 25 ELSE c1
        c3 == IF h.needs_reply # Null THEN c2 + 25 ELSE c2
        c4 == IF h.focus_summary_type # Null THEN c3 + 25 ELSE c3
    IN  c4

(***************************************************************************)
(* Hints and the escalation prompt.                                        *)
(***************************************************************************)
\* `${value}`: the text a template literal gives for a value; 1.0 prints as
\* "1" and 0.0 as "0"
TemplateText(v) ==
    CASE v.t = "null" -> "null"
      [] v.t = "boolean" -> IF v.n = 1 THEN "true" ELSE "false"
      [] v.t = "string" -> v.s
      [] v.t = "number" /\ v.n = 0 -> "0"
      [] v.t = "number" /\ v.n = 25 -> "0.25"
      [] v.t = "number" /\ v.n = 40 -> "0.4"
      [] v.t = "number" /\ v.n = 50 -> "0.5"
      [] v.t = "number" /\ v.n = 70 -> "0.7"
      [] v.t = "number" /\ v.n = 100 -> "1"
      [] OTHER -> "[object Object]"

\* `Suggested <field>: ${value}`: the label, the field and the text of the value
Hint(field, value) == [label |-> "Suggested", field |-> field, value |-> TemplateText(value)]

\* faulty variant: a field is tested for truthiness, not against null
buildHintsFromHeuristic_Truthy(h) ==
    LET h0 == << >>
        h1 == IF Truthy(h.business_value_score)
              THEN Append(h0, Hint("business_value_score", h.business_value_score)) ELSE h0
        h2 == IF Truthy(h.time_sensitive_score)
              THEN Append(h1, Hint("time_sensitive_score", h.time_sensitive_score)) ELSE h1
        h3 == IF Truthy(h.needs_reply)
              THEN Append(h2, Hint("needs_reply", h.needs_reply)) ELSE h2
        h4 == IF Truthy(h.focus_summary_type)
              THEN Append(h3, Hint("focus_summary_type", h.focus_summary_type)) ELSE h3
    IN  h4

buildHintsFromHeuristic(h) ==
    LET h0 == << >>
        h1 == IF h.business_value_score # Null
              THEN Append(h0, Hint("business_value_score", h.business_value_score)) ELSE h0
        h2 == IF h.time_sensitive_score # Null
              THEN Append(h1, Hint("time_sensitive_score", h.time_sensitive_score)) ELSE h1
        h3 == IF h.needs_reply # Null
              THEN Append(h2, Hint("needs_reply", h.needs_reply)) ELSE h2
        h4 == IF h.focus_summary_type # Null
              THEN Append(h3, Hint("focus_summary_type", h.focus_summary_type)) ELSE h3
    IN  h4

\* "\n\nHints (you may override if context suggests otherwise):\n" + hints.join("\n")
HintBlock(hintList) ==
    IF Len(hintList) > 0 THEN <<[part |-> "hints", lines |-> hintList]>> ELSE << >>

\* faulty variant: the hint block is appended before the instruction
buildPromptWithExamples_HintsFirst(msg, examples, hintList) ==
    LET shots == IF Len(examples) > 0
                 THEN <<[part |-> "preamble"]>>
                      \o [i \in 1..Len(examples) |->
                            [part |-> "example", number |-> i,
                             message |-> examples[i].message,
                             classification |-> examples[i].classification]]
                      \o <<[part |-> "separator"]>>
                 ELSE << >>
    IN  shots \o HintBlock(hintList) \o <<[part |-> "instruction", message |-> msg]>>

\* The prompt is the sequence of the parts appended to it, in order.
buildPromptWithExamples(msg, examples, hintList) ==
    LET shots == IF Len(examples) > 0
                 THEN <<[part |-> "preamble"]>>
                      \o [i \in 1..Len(examples) |->
                            [part |-> "example", number |-> i,
                             message |-> examples[i].message,
                             classification |-> examples[i].classification]]
                      \o <<[part |-> "separator"]>>
                 ELSE << >>
    IN  shots \o <<[part |-> "instruction", message |-> msg]>> \o HintBlock(hintList)

\* `Message: <<<${sanitizedMessage}>>>` followed by the hint block, if any
PlainPrompt(msg, hintList) ==
    <<[part |-> "message", message |-> msg]>> \o HintBlock(hintList)

(***************************************************************************)
(* The response validator.                                                 *)
(***************************************************************************)
FocusSummaryTypes ==
    <<"Booking", "Collab", "Brand reaching", "Feature", "Invoice", "Refund",
      "Affiliate", "General">>

SchemaKeys ==
    {"needs_reply", "time_sensitive_score", "business_value_score",
     "focus_summary_type", "reason"}

Has(f, k) == k \in DOMAIN f

\* z.boolean({required_error, invalid_type_error})
BooleanIssues(f, k) ==
    IF ~Has(f, k) THEN {k \o " is required"}
    ELSE IF f[k].t # "boolean" THEN {k \o " must be a boolean"}
    ELSE {}

\* faulty variant: .max(1) is left out
ScoreIssues_NoMax(f, k) ==
    IF ~Has(f, k) THEN {k \o " is required"}
    ELSE IF f[k].t # "number" THEN {k \o " must be a number"}
    ELSE IF f[k].n < 0 THEN {k \o " must be >= 0"}
    ELSE {}

\* faulty variant: .min(0) is left out
ScoreIssues_NoMin(f, k) ==
    IF ~Has(f, k) THEN {k \o " is required"}
    ELSE IF f[k].t # "number" THEN {k \o " must be a number"}
    ELSE IF f[k].n > 100 THEN {k \o " must be <= 1"}
    ELSE {}

\* z.number({...}).min(0, ...).max(1, ...)
ScoreIssues(f, k) ==
    IF ~Has(f, k) THEN {k \o " is required"}
    ELSE IF f[k].t # "number" THEN {k \o " must be a number"}
    ELSE (IF f[k].n < 0 THEN {k \o " must be >= 0"} ELSE {})
         \cup (IF f[k].n > 100 THEN {k \o " must be <= 1"} ELSE {})

\* z.enum(FocusSummaryTypes, {...})
EnumIssues(f, k) ==
    IF ~Has(f, k) THEN {k \o " is required"}
    ELSE IF f[k].t # "string" THEN {k \o " must be one of the focus types"}
    ELSE IF \A i \in DOMAIN FocusSummaryTypes : FocusSummaryTypes[i] # f[k].s
         THEN {"Invalid enum value"}
    ELSE {}

\* z.string({...}).min(1, ...)
ReasonIssues(f, k) ==
    IF ~Has(f, k) THEN {k \o " is required"}
    ELSE IF f[k].t # "string" THEN {k \o " must be a string"}
    ELSE IF f[k].s = "" THEN {k \o " cannot be empty"}
    ELSE {}

\* faulty variant: z.object(...).passthrough(), unknown keys are kept
ClassificationSchemaParse_Passthrough(data) ==
    IF data.t # "object"
    THEN [ok |-> FALSE, value |-> Null, issues |-> {"Expected object"}]
    ELSE LET f == data.o
             issues == BooleanIssues(f, "needs_reply")
                       \cup ScoreIssues(f, "time_sensitive_score")
                       \cup ScoreIssues(f, "business_value_score")
                       \cup EnumIssues(f, "focus_summary_type")
                       \cup ReasonIssues(f, "reason")
         IN  IF issues # {}
             THEN [ok |-> FALSE, value |-> Null, issues |-> issues]
             ELSE [ok |-> TRUE, value |-> Obj(f), issues |-> {}]

\* ClassificationSchema.parse(data): z.object strips the keys it does not
\* know; a failure throws a ZodError that lists every issue
ClassificationSchemaParse(data) ==
    IF data.t # "object"
    THEN [ok |-> FALSE, value |-> Null, issues |-> {"Expected object"}]
    ELSE LET f == data.o
             issues == BooleanIssues(f, "needs_reply")
                       \cup ScoreIssues(f, "time_sensitive_score")
                       \cup ScoreIssues(f, "business_value_score")
                       \cup EnumIssues(f, "focus_summary_type")
                       \cup ReasonIssues(f, "reason")
         IN  IF issues # {}
             THEN [ok |-> FALSE, value |-> Null, issues |-> issues]
             ELSE [ok |-> TRUE, value |-> Obj([k \in SchemaKeys |-> f[k]]), issues |-> {}]

validateClassification(data) == ClassificationSchemaParse(data)

\* JSON.parse(content): the content is either a JSON text, held as the value
\* it denotes, or not JSON at all
JSONParse(content) ==
    IF content.json THEN [ok |-> TRUE, value |-> content.value, issues |-> {}]
    ELSE [ok |-> FALSE, value |-> Null, issues |-> {"Unexpected token in JSON"}]

(***************************************************************************)
(* Input validation and sanitization.                                      *)
(***************************************************************************)
MAX_MESSAGE_LENGTH == 5000

\* the control characters [\x00-\x08\x0B-\x0C\x0E-\x1F\x7F], one token each
IsControl(tok) == tok \in {"<NUL>", "<BEL>"}

\* a run of whitespace (\s+); " " is one space
IsSpace(tok) == tok \in {" ", "  ", "<TAB>", "<LF>"}

IsWord(tok) == ~IsControl(tok) /\ ~IsSpace(tok) /\ tok \notin {"?", "!", ","}

\* number of characters of a token, for the tokens of the messages sent to
\* the handler; "x{4999}" is a word of 4999 letters x
CharLen(tok) ==
    CASE tok = "x{4999}" -> 4999
      [] tok \in {"?", "!", ",", " ", "<NUL>", "<BEL>", "<TAB>", "<LF>", "I", "a"} -> 1
      [] tok \in {"  ", "by", "to", "me", "of", "we"} -> 2
      [] tok \in {"can", "Can", "you", "for", "now", "day"} -> 3
      [] tok \in {"book", "Book", "love", "Love", "ASAP", "asap", "Asap", "shop", "rate",
                  "need", "Need", "your", "Your", "work"} -> 4
      [] tok \in {"hello", "today", "Today", "brand"} -> 5
      [] tok \in {"thanks", "Thanks", "Friday", "friday", "please"} -> 6
      [] tok \in {"invoice", "confirm", "discuss"} -> 7
      [] tok = "potential" -> 9
      [] tok = "partnership" -> 11
      [] OTHER -> 8

\* message.length: the characters of the tokens and one space between two
\* adjacent words
RECURSIVE TextLength(_)
TextLength(text) ==
    IF Len(text) = 0 THEN 0
    ELSE LET rest == Tail(text)
             gap == IF Len(rest) > 0 /\ IsWord(Head(text)) /\ IsWord(Head(rest))
                    THEN 1 ELSE 0
         IN  CharLen(Head(text)) + gap + TextLength(rest)

\* String.prototype.trim
RECURSIVE TrimLeft(_)
TrimLeft(text) ==
    IF Len(text) > 0 /\ IsSpace(Head(text)) THEN TrimLeft(Tail(text)) ELSE text

RECURSIVE TrimRight(_)
TrimRight(text) ==
    IF Len(text) > 0 /\ IsSpace(text[Len(text)])
    THEN TrimRight(SubSeq(text, 1, Len(text) - 1)) ELSE text

\* replace(/\s+/g, ' '): every run of whitespace becomes one space, which is
\* the separator of two words; a space next to a punctuation mark is kept
RECURSIVE CollapseSpaces(_)
CollapseSpaces(text) ==
    IF Len(text) = 0 THEN << >>
    ELSE LET rest == CollapseSpaces(Tail(text))
         IN  IF IsSpace(Head(text))
             THEN IF Len(rest) > 0 /\ rest[1] = " " THEN rest ELSE <<" ">> \o rest
             ELSE <<Head(text)>> \o rest

\* the single spaces that stand between two words are the separators the
\* token sequence already implies
RECURSIVE DropSeparators(_, _)
DropSeparators(prev, text) ==
    IF Len(text) = 0 THEN << >>
    ELSE IF /\ Head(text) = " " /\ IsWord(prev)
            /\ Len(text) > 1 /\ IsWord(text[2])
         THEN DropSeparators(" ", Tail(text))
         ELSE <<Head(text)>> \o DropSeparators(Head(text), Tail(text))

sanitizeMessage(msg) ==
    IF msg.t # "string" THEN << >>
    ELSE LET noNul == SelectSeq(msg.text, LAMBDA tok : tok # "<NUL>")
             noControl == SelectSeq(noNul, LAMBDA tok : ~IsControl(tok))
             trimmed == TrimRight(TrimLeft(noControl))
         IN  DropSeparators("?", CollapseSpaces(trimmed))

\* faulty variant: a message of exactly MAX_MESSAGE_LENGTH characters is refused
validateMessage_OffByOne(msg) ==
    IF msg.t \in {"null", "undefined"}
    THEN [valid |-> FALSE, error |-> "Message is required", sanitized |-> << >>]
    ELSE IF msg.t # "string"
    THEN [valid |-> FALSE, error |-> "Message must be a string", sanitized |-> << >>]
    ELSE IF TextLength(msg.text) >= MAX_MESSAGE_LENGTH
    THEN [valid |-> FALSE, error |-> "Message exceeds maximum length of 5000 characters",
          sanitized |-> << >>]
    ELSE LET sanitized == sanitizeMessage(msg)
         IN  IF Len(sanitized) = 0
             THEN [valid |-> FALSE, error |-> "Message cannot be empty after sanitization",
                   sanitized |-> << >>]
             ELSE [valid |-> TRUE, error |-> "", sanitized |-> sanitized]

validateMessage(msg) ==
    IF msg.t \in {"null", "undefined"}
    THEN [valid |-> FALSE, error |-> "Message is required", sanitized |-> << >>]
    ELSE IF msg.t # "string"
    THEN [valid |-> FALSE, error |-> "Message must be a string", sanitized |-> << >>]
    ELSE IF TextLength(msg.text) > MAX_MESSAGE_LENGTH
    THEN [valid |-> FALSE, error |-> "Message exceeds maximum length of 5000 characters",
          sanitized |-> << >>]
    ELSE LET sanitized == sanitizeMessage(msg)
         IN  IF Len(sanitized) = 0
             THEN [valid |-> FALSE, error |-> "Message cannot be empty after sanitization",
                   sanitized |-> << >>]
             ELSE [valid |-> TRUE, error |-> "", sanitized |-> sanitized]

\* !message: undefined, null, 0, false and the empty string are falsy
Falsy(msg) ==
    \/ msg.t \in {"undefined", "null"}
    \/ msg.t \in {"number", "boolean"} /\ msg.n = 0
    \/ msg.t = "string" /\ Len(msg.text) = 0

(***************************************************************************)
(* The similarity retriever.                                               *)
(***************************************************************************)
RECURSIVE Dot(_, _)
Dot(a, b) == IF Len(a) = 0 THEN 0 ELSE a[1] * b[1] + Dot(Tail(a), Tail(b))

\* faulty variant: the zero-norm test comes before the length test
cosine_ZeroFirst(a, b) ==
    IF Dot(a, a) = 0 \/ Dot(b, b) = 0
    THEN [threw |-> FALSE, d |-> 0, q |-> 1]
    ELSE IF Len(a) # Len(b)
    THEN [threw |-> TRUE, d |-> 0, q |-> 1]
    ELSE [threw |-> FALSE, d |-> Dot(a, b), q |-> Dot(a, a) * Dot(b, b)]

\* faulty variant: no zero-norm test, the quotient is always formed
cosine_NoZeroGuard(a, b) ==
    IF Len(a) # Len(b)
    THEN [threw |-> TRUE, d |-> 0, q |-> 1]
    ELSE [threw |-> FALSE, d |-> Dot(a, b), q |-> Dot(a, a) * Dot(b, b)]

\* cosine(a, b) = dot / (normA * normB), held exactly as the pair
\* (d, q) that stands for d / sqrt(q); 0 is (0, 1)
cosine(a, b) ==
    IF Len(a) # Len(b)
    THEN [threw |-> TRUE, d |-> 0, q |-> 1]
    ELSE IF Dot(a, a) = 0 \/ Dot(b, b) = 0
    THEN [threw |-> FALSE, d |-> 0, q |-> 1]
    ELSE [threw |-> FALSE, d |-> Dot(a, b), q |-> Dot(a, a) * Dot(b, b)]

Sign(x) == IF x > 0 THEN 1 ELSE IF x < 0 THEN -1 ELSE 0

\* x.d / sqrt(x.q) > y.d / sqrt(y.q)
SimGreater(x, y) == Sign(x.d) * x.d * x.d * y.q > Sign(y.d) * y.d * y.d * x.q

\* faulty variant: the comparator is a.similarity - b.similarity
RECURSIVE InsertBySimilarity_Ascending(_, _)
InsertBySimilarity_Ascending(sorted, e) ==
    IF Len(sorted) = 0 THEN <<e>>
    ELSE IF SimGreater(sorted[1].similarity, e.similarity) THEN <<e>> \o sorted
    ELSE <<sorted[1]>> \o InsertBySimilarity_Ascending(Tail(sorted), e)

\* Array.prototype.sort((a, b) => b.similarity - a.similarity): stable, so an
\* element goes after the elements that are at least as similar
RECURSIVE InsertBySimilarity(_, _)
InsertBySimilarity(sorted, e) ==
    IF Len(sorted) = 0 THEN <<e>>
    ELSE IF SimGreater(e.similarity, sorted[1].similarity) THEN <<e>> \o sorted
    ELSE <<sorted[1]>> \o InsertBySimilarity(Tail(sorted), e)

RECURSIVE SortBySimilarity(_)
SortBySimilarity(list) ==
    IF Len(list) = 0 THEN << >>
    ELSE InsertBySimilarity(SortBySimilarity(SubSeq(list, 1, Len(list) - 1)),
                            list[Len(list)])

\* faulty variant: an empty corpus is reported as an error
findSimilarExamples_ThrowsOnEmpty(examples, messageEmbedding, k) ==
    IF Len(examples) = 0 THEN [threw |-> TRUE, value |-> << >>]
    ELSE IF \E i \in DOMAIN examples : cosine(examples[i].embedding, messageEmbedding).threw
    THEN [threw |-> TRUE, value |-> << >>]
    ELSE LET similarities ==
                 [i \in DOMAIN examples |->
                    [message |-> examples[i].message,
                     classification |-> examples[i].classification,
                     similarity |-> cosine(examples[i].embedding, messageEmbedding)]]
             sorted == SortBySimilarity(similarities)
         IN  [threw |-> FALSE, value |-> SubSeq(sorted, 1, Min(k, Len(sorted)))]

findSimilarExamples(examples, messageEmbedding, k) ==
    IF Len(examples) = 0 THEN [threw |-> FALSE, value |-> << >>]
    ELSE IF \E i \in DOMAIN examples : cosine(examples[i].embedding, messageEmbedding).threw
    THEN [threw |-> TRUE, value |-> << >>]
    ELSE LET similarities ==
                 [i \in DOMAIN examples |->
                    [message |-> examples[i].message,
                     classification |-> examples[i].classification,
                     similarity |-> cosine(examples[i].embedding, messageEmbedding)]]
             sorted == SortBySimilarity(similarities)
         IN  [threw |-> FALSE, value |-> SubSeq(sorted, 1, Min(k, Len(sorted)))]

\* faulty variant: embeddings are reported available whatever was loaded
areEmbeddingsAvailable_Always == TRUE

areEmbeddingsAvailable == Len(corpus) > 0

\* the parameter k = 3: an argument that is not given is 3
DefaultK(arg) == IF arg.given THEN arg.n ELSE 3

\* The load at module initialisation: examplesWithEmbeddings is [] and
\* becomes data.examples when the artifact is read and parsed; when
\* readFileSync or JSON.parse throws, the catch warns and it stays [].
LoadCorpus(artifact) ==
    IF ~artifact.present THEN << >>
    ELSE IF ~artifact.parses THEN << >>
    ELSE artifact.examples

(***************************************************************************)
(* The inputs and the replies of the collaborators.                        *)
(***************************************************************************)
MsgOther(type, num) == [t |-> type, n |-> num, text |-> << >>]

MsgText(text) == [t |-> "string", n |-> 0, text |-> text]

\* the words the messages sent through the handler are made of
PipeVocabulary == {"book", "partnership", "love", "ASAP", "?", "hello"}

\* messages with whitespace and control characters to sanitize
NoisyTexts ==
    {<<" ">>, <<"<BEL>">>, <<"<LF>", "love", "<TAB>">>,
     <<"  ", "book", "  ", "ASAP", "?", "<NUL>">>}

\* a message of 5000 characters and one of 5001
LongTexts == {<<"x{4999}", "?">>, <<"x{4999}", "?", "?">>}

\* "Need to book you for Friday ASAP! Can you confirm?" and
\* "Love your work! Can we discuss a potential partnership?"
ExampleTexts ==
    {<<"Need", "to", "book", "you", "for", "Friday", "ASAP", "!", "Can", "you",
       "confirm", "?">>,
     <<"Love", "your", "work", "!", "Can", "we", "discuss", "a", "potential",
       "partnership", "?">>}

RequestMessages ==
    {MsgOther("undefined", 0), MsgOther("null", 0), MsgOther("number", 0),
     MsgOther("number", 7), MsgOther("object", 1)}
    \cup {MsgText(text) : text \in SeqsUpTo(PipeVocabulary, MaxPipeLen)}
    \cup {MsgText(text) : text \in NoisyTexts \cup LongTexts \cup ExampleTexts}

GoldClassification(type, score) ==
    Obj([needs_reply |-> Bool(TRUE), time_sensitive_score |-> Num(score),
         business_value_score |-> Num(score), focus_summary_type |-> Str(type),
         reason |-> Str("example")])

\* the examples of the artifact the embedding script has written
GeneratedExamples ==
    <<[message |-> "ex1", classification |-> GoldClassification("Booking", 100),
        embedding |-> <<1, 0>>],
       [message |-> "ex2", classification |-> GoldClassification("Collab", 70),
        embedding |-> <<1, 1>>],
       [message |-> "ex3", classification |-> GoldClassification("General", 0),
        embedding |-> <<0, 1>>],
       [message |-> "ex4", classification |-> GoldClassification("General", 40),
        embedding |-> <<0, 0>>]>>

\* examples_with_embeddings.json: absent, cut short (not JSON), or written
\* by the embedding script as { examples: [...] } with no or four examples
Artifacts ==
    {[present |-> FALSE, parses |-> FALSE, examples |-> << >>],
     [present |-> TRUE, parses |-> FALSE, examples |-> << >>],
     [present |-> TRUE, parses |-> TRUE, examples |-> << >>],
     [present |-> TRUE, parses |-> TRUE, examples |-> GeneratedExamples]}

\* examplesWithEmbeddings after the load
Corpora == {LoadCorpus(artifact) : artifact \in Artifacts}

\* response.data[0].embedding
EmbeddingVectors == {<<1, 0>>, <<0, 1>>, <<1>>}

\* the errors a call to the embedding service or to the model rejects with
ServiceErrors ==
    {[code |-> "invalid_api_key", message |-> "Incorrect API key provided"],
     [code |-> "ETIMEDOUT", message |-> "Request timed out"]}

ValidReply ==
    [needs_reply |-> Bool(TRUE), time_sensitive_score |-> Num(70),
     business_value_score |-> Num(100), focus_summary_type |-> Str("Booking"),
     reason |-> Str("Urgent booking request")]

WithField(f, k, v) == [x \in DOMAIN f \cup {k} |-> IF x = k THEN v ELSE f[x]]

WithoutField(f, k) == [x \in DOMAIN f \ {k} |-> f[x]]

\* the values completion.choices[0].message.content can denote
ModelReplies ==
    {Obj(ValidReply),
     Obj(WithField(WithField(ValidReply, "time_sensitive_score", Num(50)),
                   "business_value_score", Num(0))),
     Obj(WithField(ValidReply, "extra_field", Str("this should be ignored"))),
     Obj(WithoutField(ValidReply, "reason")),
     Obj(WithField(ValidReply, "time_sensitive_score", Num(150))),
     Obj(WithField(ValidReply, "business_value_score", Num(-10))),
     Obj(WithField(ValidReply, "focus_summary_type", Str("Unknown"))),
     Obj(WithField(ValidReply, "reason", Str(""))),
     Obj(WithField(ValidReply, "needs_reply", Str("true"))),
     Obj(EmptyFields),
     Null}

CompletionContents ==
    {[json |-> FALSE, value |-> Null]} \cup {[json |-> TRUE, value |-> v] : v \in ModelReplies}

(***************************************************************************)
(* POST /classify.                                                         *)
(***************************************************************************)
EmptyHeuristic ==
    [business_value_score |-> Null, time_sensitive_score |-> Null, needs_reply |-> Null,
     focus_summary_type |-> Null, reason |-> Null]

\* focus_summary_type.toLowerCase()
LowerType(type) ==
    CASE type = "Booking" -> "booking"
      [] type = "Collab" -> "collab"
      [] type = "Brand reaching" -> "brand reaching"
      [] type = "Feature" -> "feature"
      [] type = "Invoice" -> "invoice"
      [] type = "Refund" -> "refund"
      [] type = "Affiliate" -> "affiliate"
      [] type = "General" -> "general"
      [] OTHER -> type

ErrorResponse(status, body) == [status |-> status, body |-> body]

\* faulty variant: the reason is the heuristic's own reason, which is null
HeuristicResponse_NullReason(h) ==
    [status |-> 200,
     body |-> [success |-> TRUE,
               classification |->
                   Obj([needs_reply |-> h.needs_reply,
                        time_sensitive_score |-> h.time_sensitive_score,
                        business_value_score |-> h.business_value_score,
                        focus_summary_type |-> h.focus_summary_type,
                        reason |-> h.reason]),
               metadata |-> [method |-> "heuristic"]]]

\* the heuristic result promoted to the final classification
HeuristicResponse(h) ==
    [status |-> 200,
     body |-> [success |-> TRUE,
               classification |->
                   Obj([needs_reply |-> h.needs_reply,
                        time_sensitive_score |-> h.time_sensitive_score,
                        business_value_score |-> h.business_value_score,
                        focus_summary_type |-> h.focus_summary_type,
                        reason |-> Str("Pattern-matched as "
                                       \o LowerType(h.focus_summary_type.s)
                                       \o " with clear indicators")]),
               metadata |-> [method |-> "heuristic"]]]

LLMResponse(result, hintList, used, examples) ==
    [status |-> 200,
     body |-> [success |-> TRUE,
               classification |-> result,
               metadata |-> [method |-> "llm",
                             hints_provided |-> Len(hintList) > 0,
                             similar_examples_used |-> used,
                             similar_examples_count |-> Len(examples)]]]

\* the model call has not settled
Pending == [state |-> "pending"]

\* messageEmbedding before getEmbedding has resolved
NoEmbedding == [assigned |-> FALSE, vector |-> << >>]

Init ==
    /\ corpus \in Corpora
    /\ pc = "idle"
    /\ message = MsgOther("undefined", 0)
    /\ sanitizedMessage = << >>
    /\ heuristic = EmptyHeuristic
    /\ similarExamples = << >>
    /\ usedEmbeddings = FALSE
    /\ hints = << >>
    /\ userPrompt = << >>
    /\ completion = Pending
    /\ rawResponse = Null
    /\ classification = Null
    /\ responses = << >>
    /\ embedCalls = 0
    /\ llmCalls = 0
    /\ embedFailed = FALSE
    /\ msgEmbedding = NoEmbedding
    /\ requests = << >>
    /\ fnIn = Null
    /\ fnOut = Null

\* faulty variant: the prompt is built without the hints
CallModel_NoHints(examples, used) ==
    /\ similarExamples' = examples
    /\ usedEmbeddings' = used
    /\ hints' = << >>
    /\ userPrompt' = IF used
                     THEN buildPromptWithExamples(sanitizedMessage, examples, << >>)
                     ELSE PlainPrompt(sanitizedMessage, << >>)
    /\ llmCalls' = llmCalls + 1
    /\ pc' = "awaitCompletion"

\* Steps 3 (end): build the hints and the prompt, then issue the model call
CallModel(examples, used) ==
    /\ similarExamples' = examples
    /\ usedEmbeddings' = used
    /\ hints' = buildHintsFromHeuristic(heuristic)
    /\ userPrompt' = IF used
                     THEN buildPromptWithExamples(sanitizedMessage, examples,
                                                  buildHintsFromHeuristic(heuristic))
                     ELSE PlainPrompt(sanitizedMessage, buildHintsFromHeuristic(heuristic))
    /\ llmCalls' = llmCalls + 1
    /\ pc' = "awaitCompletion"

\* The handler from the arrival of the request to its first await or to its
\* response: input checks, heuristicClassify, the conclusive branch, and the
\* start of the escalation.
Receive ==
    /\ pc = "idle"
    /\ \E msg \in RequestMessages :
        /\ message' = msg
        /\ IF Falsy(msg)
           THEN /\ responses' = Append(responses,
                        ErrorResponse(400, [error |-> "Missing required field: message"]))
                /\ pc' = "done"
                /\ UNCHANGED <<sanitizedMessage, heuristic, similarExamples, usedEmbeddings,
                               hints, userPrompt, embedCalls, llmCalls>>
           ELSE IF ~validateMessage(msg).valid
           THEN /\ responses' = Append(responses,
                        ErrorResponse(400, [error |-> validateMessage(msg).error]))
                /\ pc' = "done"
                /\ UNCHANGED <<sanitizedMessage, heuristic, similarExamples, usedEmbeddings,
                               hints, userPrompt, embedCalls, llmCalls>>
           ELSE LET sanitized == validateMessage(msg).sanitized
                    h == heuristicClassify(sanitized)
                IN  /\ sanitizedMessage' = sanitized
                    /\ heuristic' = h
                    /\ IF isHeuristicConclusive(h)
                       THEN /\ responses' = Append(responses, HeuristicResponse(h))
                            /\ pc' = "done"
                            /\ UNCHANGED <<similarExamples, usedEmbeddings, hints,
                                           userPrompt, embedCalls, llmCalls>>
                       ELSE IF areEmbeddingsAvailable
                       THEN /\ embedCalls' = embedCalls + 1
                            /\ pc' = "awaitEmbedding"
                            /\ UNCHANGED <<responses, similarExamples, usedEmbeddings,
                                           hints, userPrompt, llmCalls>>
                       ELSE /\ similarExamples' = << >>
                            /\ usedEmbeddings' = FALSE
                            /\ hints' = buildHintsFromHeuristic(h)
                            /\ userPrompt' = PlainPrompt(sanitized, buildHintsFromHeuristic(h))
                            /\ llmCalls' = llmCalls + 1
                            /\ pc' = "awaitCompletion"
                            /\ UNCHANGED <<responses, embedCalls>>
    /\ UNCHANGED <<corpus, completion, rawResponse, classification, embedFailed,
                   msgEmbedding, requests, fnIn, fnOut>>

\* getEmbedding resolves: findSimilarExamples runs inside the same try; when
\* it throws, the catch logs and the handler goes on with no example
EmbeddingResolves ==
    /\ pc = "awaitEmbedding"
    /\ \E vector \in EmbeddingVectors :
        LET found == findSimilarExamples(corpus, vector, 3)
        IN  /\ msgEmbedding' = [assigned |-> TRUE, vector |-> vector]
            /\ IF found.threw THEN CallModel(<< >>, FALSE) ELSE CallModel(found.value, TRUE)
    /\ UNCHANGED <<corpus, message, sanitizedMessage, heuristic, completion, rawResponse,
                   classification, responses, embedCalls, embedFailed, requests, fnIn, fnOut>>

\* faulty variant: the embedding failure reaches the outer catch
EmbeddingRejects_Fatal ==
    /\ pc = "awaitEmbedding"
    /\ \E error \in ServiceErrors :
        responses' = Append(responses,
            ErrorResponse(500, [error |-> "Classification failed",
                                message |-> error.message]))
    /\ embedFailed' = TRUE
    /\ pc' = "done"
    /\ UNCHANGED <<corpus, message, sanitizedMessage, heuristic, similarExamples,
                   usedEmbeddings, hints, userPrompt, completion, rawResponse,
                   classification, embedCalls, llmCalls, msgEmbedding, requests,
                   fnIn, fnOut>>

\* faulty variant: the catch issues the embedding call again
EmbeddingRejects_Retry ==
    /\ pc = "awaitEmbedding"
    /\ embedCalls < 3
    /\ embedFailed' = TRUE
    /\ embedCalls' = embedCalls + 1
    /\ UNCHANGED <<corpus, pc, message, sanitizedMessage, heuristic, similarExamples,
                   usedEmbeddings, hints, userPrompt, completion, rawResponse,
                   classification, responses, llmCalls, msgEmbedding, requests,
                   fnIn, fnOut>>

\* getEmbedding rejects: the catch logs and the handler goes on
EmbeddingRejects ==
    /\ pc = "awaitEmbedding"
    /\ \E error \in ServiceErrors : CallModel(<< >>, FALSE)
    /\ embedFailed' = TRUE
    /\ UNCHANGED <<corpus, message, sanitizedMessage, heuristic, completion, rawResponse,
                   classification, responses, embedCalls, msgEmbedding, requests,
                   fnIn, fnOut>>

\* faulty variant: the parsed reply is returned without validateClassification
CompletionResolves_Unvalidated ==
    /\ pc = "awaitCompletion"
    /\ \E content \in CompletionContents :
        LET parsed == JSONParse(content)
        IN  /\ completion' = [state |-> "resolved", content |-> content]
            /\ rawResponse' = parsed.value
            /\ IF parsed.ok
               THEN /\ classification' = parsed.value
                    /\ responses' = Append(responses,
                           LLMResponse(parsed.value, hints, usedEmbeddings, similarExamples))
               ELSE /\ classification' = classification
                    /\ responses' = Append(responses,
                           ErrorResponse(500,
                               [error |-> "Invalid classification response from LLM",
                                details |-> parsed.issues]))
    /\ pc' = "done"
    /\ UNCHANGED <<corpus, message, sanitizedMessage, heuristic, similarExamples,
                   usedEmbeddings, hints, userPrompt, embedCalls, llmCalls, embedFailed,
                   msgEmbedding, requests, fnIn, fnOut>>

\* faulty variant: a reply that fails validation is replaced by a default record
CompletionResolves_Fallback ==
    /\ pc = "awaitCompletion"
    /\ \E content \in CompletionContents :
        LET parsed == JSONParse(content)
            checked == IF parsed.ok THEN validateClassification(parsed.value) ELSE parsed
            result == IF checked.ok THEN checked.value
                      ELSE Obj([needs_reply |-> Bool(FALSE),
                                time_sensitive_score |-> Num(0),
                                business_value_score |-> Num(0),
                                focus_summary_type |-> Str("General"),
                                reason |-> Str("fallback")])
        IN  /\ completion' = [state |-> "resolved", content |-> content]
            /\ rawResponse' = parsed.value
            /\ classification' = result
            /\ responses' = Append(responses,
                   LLMResponse(result, hints, usedEmbeddings, similarExamples))
    /\ pc' = "done"
    /\ UNCHANGED <<corpus, message, sanitizedMessage, heuristic, similarExamples,
                   usedEmbeddings, hints, userPrompt, embedCalls, llmCalls, embedFailed,
                   msgEmbedding, requests, fnIn, fnOut>>

\* the model call resolves: parse, validate, respond
CompletionResolves ==
    /\ pc = "awaitCompletion"
    /\ \E content \in CompletionContents :
        LET parsed == JSONParse(content)
            checked == IF parsed.ok THEN validateClassification(parsed.value) ELSE parsed
        IN  /\ completion' = [state |-> "resolved", content |-> content]
            /\ rawResponse' = parsed.value
            /\ IF checked.ok
               THEN /\ classification' = checked.value
                    /\ responses' = Append(responses,
                           LLMResponse(checked.value, hints, usedEmbeddings, similarExamples))
               ELSE /\ classification' = classification
                    /\ responses' = Append(responses,
                           ErrorResponse(500,
                               [error |-> "Invalid classification response from LLM",
                                details |-> checked.issues]))
    /\ pc' = "done"
    /\ UNCHANGED <<corpus, message, sanitizedMessage, heuristic, similarExamples,
                   usedEmbeddings, hints, userPrompt, embedCalls, llmCalls, embedFailed,
                   msgEmbedding, requests, fnIn, fnOut>>

\* faulty variant: the outer catch logs the error and sends nothing
CompletionRejects_Silent ==
    /\ pc = "awaitCompletion"
    /\ \E error \in ServiceErrors :
        completion' = [state |-> "rejected", error |-> error]
    /\ pc' = "done"
    /\ UNCHANGED <<corpus, message, sanitizedMessage, heuristic, similarExamples,
                   usedEmbeddings, hints, userPrompt, rawResponse, classification,
                   responses, embedCalls, llmCalls, embedFailed, msgEmbedding, requests,
                   fnIn, fnOut>>

\* the model call rejects: the outer catch answers 401 or 500
CompletionRejects ==
    /\ pc = "awaitCompletion"
    /\ \E error \in ServiceErrors :
        /\ completion' = [state |-> "rejected", error |-> error]
        /\ responses' = Append(responses,
               IF error.code = "invalid_api_key"
               THEN ErrorResponse(401,
                        [error |-> "Invalid OpenAI API key. Check your .env file."])
               ELSE ErrorResponse(500,
                        [error |-> "Classification failed", message |-> error.message]))
    /\ pc' = "done"
    /\ UNCHANGED <<corpus, message, sanitizedMessage, heuristic, similarExamples,
                   usedEmbeddings, hints, userPrompt, rawResponse, classification,
                   embedCalls, llmCalls, embedFailed, msgEmbedding, requests,
                   fnIn, fnOut>>

Next ==
    \/ Receive
    \/ EmbeddingResolves
    \/ EmbeddingRejects
    \/ CompletionResolves
    \/ CompletionRejects

Spec == Init /\ [][Next]_vars

\* An awaited call of the embedding service, and one of the model, settles:
\* the promise resolves or rejects, and the event loop then resumes the
\* handler.
SpecLive ==
    /\ Init
    /\ [][Next]_vars
    /\ WF_vars(EmbeddingResolves \/ EmbeddingRejects)
    /\ WF_vars(CompletionResolves \/ CompletionRejects)

(***************************************************************************)
(* Several requests in flight.  Each invocation of the handler has its own *)
(* locals, held in one record of requests; examplesWithEmbeddings is the   *)
(* one object all invocations share.  An invocation runs without           *)
(* interruption from its arrival to its first await, from an await to the  *)
(* next, and from the last await to its response.                          *)
(***************************************************************************)
MaxRequests == 2

RequestIds == 1..MaxRequests

\* the locals of an invocation that has not begun; concurrent is history:
\* another invocation was awaiting a call when this one began
NewRequest ==
    [pc |-> "idle", message |-> MsgOther("undefined", 0), sanitizedMessage |-> << >>,
     heuristic |-> EmptyHeuristic, embedding |-> Pending, similarExamples |-> << >>,
     usedEmbeddings |-> FALSE, hints |-> << >>, userPrompt |-> << >>,
     completion |-> Pending, responses |-> << >>, concurrent |-> FALSE]

\* return res.status(...).json(...)
Respond(req, response) ==
    [req EXCEPT !.responses = Append(@, response), !.pc = "done"]

\* build the hints and the prompt, then issue the model call
StartModelCall(req, examples, used) ==
    LET hintList == buildHintsFromHeuristic(req.heuristic)
    IN  [req EXCEPT !.similarExamples = examples,
                    !.usedEmbeddings = used,
                    !.hints = hintList,
                    !.userPrompt = IF used
                                   THEN buildPromptWithExamples(req.sanitizedMessage,
                                                                examples, hintList)
                                   ELSE PlainPrompt(req.sanitizedMessage, hintList),
                    !.pc = "awaitCompletion"]

\* the handler from the arrival of the request to its first await or to its
\* response, on the corpus it finds
HandlerStart(msg, examples) ==
    LET req == [NewRequest EXCEPT !.message = msg]
    IN  IF Falsy(msg)
        THEN Respond(req, ErrorResponse(400, [error |-> "Missing required field: message"]))
        ELSE IF ~validateMessage(msg).valid
        THEN Respond(req, ErrorResponse(400, [error |-> validateMessage(msg).error]))
        ELSE LET sanitized == validateMessage(msg).sanitized
                 h == heuristicClassify(sanitized)
                 classified == [req EXCEPT !.sanitizedMessage = sanitized, !.heuristic = h]
             IN  IF isHeuristicConclusive(h)
                 THEN Respond(classified, HeuristicResponse(h))
                 ELSE IF Len(examples) > 0
                 THEN [classified EXCEPT !.pc = "awaitEmbedding"]
                 ELSE StartModelCall(classified, << >>, FALSE)

\* the handler from the settlement of getEmbedding to the model call
HandlerAfterEmbedding(req, settled, examples) ==
    LET awaited == [req EXCEPT !.embedding = settled]
    IN  IF settled.state = "rejected"
        THEN StartModelCall(awaited, << >>, FALSE)
        ELSE LET found == findSimilarExamples(examples, settled.vector, 3)
             IN  IF found.threw
                 THEN StartModelCall(awaited, << >>, FALSE)
                 ELSE StartModelCall(awaited, found.value, TRUE)

\* the handler from the settlement of the model call to its response
HandlerAfterCompletion(req, settled) ==
    LET awaited == [req EXCEPT !.completion = settled]
    IN  IF settled.state = "rejected"
        THEN Respond(awaited,
                 IF settled.error.code = "invalid_api_key"
                 THEN ErrorResponse(401,
                          [error |-> "Invalid OpenAI API key. Check your .env file."])
                 ELSE ErrorResponse(500, [error |-> "Classification failed",
                                          message |-> settled.error.message]))
        ELSE LET parsed == JSONParse(settled.content)
                 checked == IF parsed.ok THEN validateClassification(parsed.value)
                            ELSE parsed
             IN  IF checked.ok
                 THEN Respond(awaited, LLMResponse(checked.value, req.hints,
                                                   req.usedEmbeddings, req.similarExamples))
                 ELSE Respond(awaited,
                          ErrorResponse(500,
                              [error |-> "Invalid classification response from LLM",
                               details |-> checked.issues]))

\* faulty variant: findSimilarExamples sorts examplesWithEmbeddings itself
CorpusAfterFind_SortsInPlace(examples, vector) ==
    IF \E i \in DOMAIN examples : cosine(examples[i].embedding, vector).threw
    THEN examples
    ELSE LET similarities ==
                 [i \in DOMAIN examples |->
                     [message |-> examples[i].message,
                      classification |-> examples[i].classification,
                      similarity |-> cosine(examples[i].embedding, vector)]]
             sorted == SortBySimilarity(similarities)
         IN  [i \in DOMAIN examples |->
                 CHOOSE e \in {examples[j] : j \in DOMAIN examples} :
                     e.message = sorted[i].message]

\* examplesWithEmbeddings after a call of findSimilarExamples: map builds a
\* new array, sort and slice work on that array
CorpusAfterFind(examples, vector) == examples

\* a message that is refused, one the rules answer, and one that escalates
\* with hints
ConcurrentMessages ==
    {MsgOther("number", 7),
     MsgText(<<"Need", "to", "book", "you", "for", "Friday", "ASAP", "!", "Can", "you",
               "confirm", "?">>),
     MsgText(<<"partnership", "?">>)}

EmbeddingOutcomes ==
    {[state |-> "resolved", vector |-> v] : v \in EmbeddingVectors}
    \cup {[state |-> "rejected", error |-> e] : e \in {x \in ServiceErrors : x.code = "ETIMEDOUT"}}

CompletionOutcomes ==
    {[state |-> "resolved", content |-> c] :
        c \in {[json |-> TRUE, value |-> Obj(ValidReply)],
               [json |-> TRUE,
                value |-> Obj(WithField(ValidReply, "time_sensitive_score", Num(150)))]}}
    \cup {[state |-> "rejected", error |-> e] :
             e \in {x \in ServiceErrors : x.code = "invalid_api_key"}}

\* the variables of the single request, which stay as they are
soloVars ==
    <<pc, message, sanitizedMessage, heuristic, similarExamples, usedEmbeddings, hints,
      userPrompt, completion, rawResponse, classification, responses, embedCalls,
      llmCalls, embedFailed, msgEmbedding, fnIn, fnOut>>

InitConcurrent ==
    /\ corpus = GeneratedExamples
    /\ requests = [r \in RequestIds |-> NewRequest]
    /\ pc = "idle"
    /\ message = MsgOther("undefined", 0)
    /\ sanitizedMessage = << >>
    /\ heuristic = EmptyHeuristic
    /\ similarExamples = << >>
    /\ usedEmbeddings = FALSE
    /\ hints = << >>
    /\ userPrompt = << >>
    /\ completion = Pending
    /\ rawResponse = Null
    /\ classification = Null
    /\ responses = << >>
    /\ embedCalls = 0
    /\ llmCalls = 0
    /\ embedFailed = FALSE
    /\ msgEmbedding = NoEmbedding
    /\ fnIn = Null
    /\ fnOut = Null

InFlight(r) == requests[r].pc \in {"awaitEmbedding", "awaitCompletion"}

Arrives(r) ==
    /\ requests[r].pc = "idle"
    /\ \E msg \in ConcurrentMessages :
        requests' = [requests EXCEPT ![r] =
                        [HandlerStart(msg, corpus) EXCEPT
                            !.concurrent = \E other \in RequestIds \ {r} : InFlight(other)]]
    /\ UNCHANGED <<corpus, soloVars>>

EmbeddingResolvesFor(r) ==
    /\ requests[r].pc = "awaitEmbedding"
    /\ \E settled \in {o \in EmbeddingOutcomes : o.state = "resolved"} :
        /\ requests' = [requests EXCEPT ![r] =
                           HandlerAfterEmbedding(requests[r], settled, corpus)]
        /\ corpus' = CorpusAfterFind(corpus, settled.vector)
    /\ UNCHANGED soloVars

EmbeddingRejectsFor(r) ==
    /\ requests[r].pc = "awaitEmbedding"
    /\ \E settled \in {o \in EmbeddingOutcomes : o.state = "rejected"} :
        requests' = [requests EXCEPT ![r] =
                        HandlerAfterEmbedding(requests[r], settled, corpus)]
    /\ UNCHANGED <<corpus, soloVars>>

CompletionResolvesFor(r) ==
    /\ requests[r].pc = "awaitCompletion"
    /\ \E settled \in {o \in CompletionOutcomes : o.state = "resolved"} :
        requests' = [requests EXCEPT ![r] = HandlerAfterCompletion(requests[r], settled)]
    /\ UNCHANGED <<corpus, soloVars>>

CompletionRejectsFor(r) ==
    /\ requests[r].pc = "awaitCompletion"
    /\ \E settled \in {o \in CompletionOutcomes : o.state = "rejected"} :
        requests' = [requests EXCEPT ![r] = HandlerAfterCompletion(requests[r], settled)]
    /\ UNCHANGED <<corpus, soloVars>>

NextConcurrent ==
    \E r \in RequestIds :
        \/ Arrives(r)
        \/ EmbeddingResolvesFor(r)
        \/ EmbeddingRejectsFor(r)
        \/ CompletionResolvesFor(r)
        \/ CompletionRejectsFor(r)

SpecConcurrent == InitConcurrent /\ [][NextConcurrent]_vars

\* the request handled alone on the corpus as loaded, with the same message
\* and the same settlements of its two calls
Alone(msg, embedding, completed, loaded) ==
    LET started == HandlerStart(msg, loaded)
        embedded == IF started.pc = "awaitEmbedding"
                    THEN HandlerAfterEmbedding(started, embedding, loaded)
                    ELSE started
    IN  IF embedded.pc = "awaitCompletion"
        THEN HandlerAfterCompletion(embedded, completed)
        ELSE embedded

(***************************************************************************)
(* Specifications of single functions: the input is drawn by Init, the     *)
(* action applies the function, fnOut lists the results in order.          *)
(***************************************************************************)
handlerVars ==
    <<corpus, pc, message, sanitizedMessage, heuristic, similarExamples, usedEmbeddings,
      hints, userPrompt, completion, rawResponse, classification, responses, embedCalls,
      llmCalls, embedFailed, msgEmbedding, requests>>

FunctionInit(inputs) ==
    /\ fnIn \in inputs
    /\ fnOut = << >>
    /\ corpus = << >>
    /\ pc = "function"
    /\ message = MsgOther("undefined", 0)
    /\ sanitizedMessage = << >>
    /\ heuristic = EmptyHeuristic
    /\ similarExamples = << >>
    /\ usedEmbeddings = FALSE
    /\ hints = << >>
    /\ userPrompt = << >>
    /\ completion = Pending
    /\ rawResponse = Null
    /\ classification = Null
    /\ responses = << >>
    /\ embedCalls = 0
    /\ llmCalls = 0
    /\ embedFailed = FALSE
    /\ msgEmbedding = NoEmbedding
    /\ requests = << >>

\* ---- the completeness gate ----

ScoreValues == {Num(0), Num(40), Num(70), Num(100)}

\* every partial result: each field null or one of its values
PartialResults ==
    [business_value_score : {Null} \cup ScoreValues,
     time_sensitive_score : {Null} \cup ScoreValues,
     needs_reply : {Null, Bool(TRUE), Bool(FALSE)},
     focus_summary_type : {Null} \cup {Str(FocusSummaryTypes[i]) : i \in DOMAIN FocusSummaryTypes},
     reason : {Null}]

\* The three states the handler tells apart: the conclusive branch, and on
\* the escalation path whether there is any hint (hints.length > 0).
GateState(h) ==
    IF isHeuristicConclusive(h) THEN "Conclusive"
    ELSE IF Len(buildHintsFromHeuristic(h)) > 0 THEN "Partial"
    ELSE "Empty"

InitGate == FunctionInit(PartialResults)

ApplyGate ==
    /\ pc = "function"
    /\ fnOut = << >>
    /\ fnOut' = <<[conclusive |-> isHeuristicConclusive(fnIn),
                   state |-> GateState(fnIn),
                   confidence |-> getHeuristicConfidence(fnIn)]>>
    /\ UNCHANGED <<fnIn, handlerVars>>

SpecGate == InitGate /\ [][ApplyGate]_vars

\* number of the four fields of a partial result that are not null
ResolvedCount(h) ==
    Cardinality({k \in {"business_value_score", "time_sensitive_score", "needs_reply",
                        "focus_summary_type"} : h[k] # Null})

\* C1: for every partial result the check is conclusive iff all four fields
\* are non-null, the state is Empty iff all four are null and Partial
\* otherwise, the confidence is (number of non-null fields)/4, and so the
\* confidence is 1.0 exactly when the check is conclusive.
C1_GateAndConfidence ==
    Len(fnOut) = 1 =>
        /\ fnOut[1].conclusive <=> ResolvedCount(fnIn) = 4
        /\ fnOut[1].state = "Conclusive" <=> ResolvedCount(fnIn) = 4
        /\ fnOut[1].state = "Empty" <=> ResolvedCount(fnIn) = 0
        /\ fnOut[1].state = "Partial" <=> ResolvedCount(fnIn) \in 1..3
        /\ fnOut[1].confidence = 25 * ResolvedCount(fnIn)
        /\ fnOut[1].confidence = 100 <=> fnOut[1].conclusive

\* a partial result with three fields resolved has been judged
C1_Witness ==
    /\ Len(fnOut) = 1
    /\ ResolvedCount(fnIn) = 3
    /\ fnIn.time_sensitive_score = Null
    /\ fnOut[1].confidence = 75
    /\ fnOut[1].state = "Partial"

\* ---- the hints ----

InitHints == FunctionInit(PartialResults)

\* buildHintsFromHeuristic(heuristic) and, when the result is not
\* conclusive, the hints_provided flag the handler reports for these hints
ApplyHints ==
    /\ pc = "function"
    /\ fnOut = << >>
    /\ fnOut' =
          <<[hints |-> buildHintsFromHeuristic(fnIn),
             escalated |-> ~isHeuristicConclusive(fnIn),
             hints_provided |->
                 IF isHeuristicConclusive(fnIn) THEN FALSE
                 ELSE LLMResponse(Obj(ValidReply), buildHintsFromHeuristic(fnIn), FALSE,
                                  << >>).body.metadata.hints_provided]>>
    /\ UNCHANGED <<fnIn, handlerVars>>

SpecHints == InitHints /\ [][ApplyHints]_vars

\* the four fields a hint can be about
HintFields ==
    {"business_value_score", "time_sensitive_score", "needs_reply", "focus_summary_type"}

\* the text of a field's value, in the words of the claim's examples
ValueText(v) ==
    CASE v = Num(0) -> "0"
      [] v = Num(40) -> "0.4"
      [] v = Num(70) -> "0.7"
      [] v = Num(100) -> "1"
      [] v = Bool(TRUE) -> "true"
      [] v = Bool(FALSE) -> "false"
      [] OTHER -> v.s

\* C17: buildHintsFromHeuristic gives exactly one hint line for each of the
\* four fields that is not null, carrying the field's value, and no line
\* for a null field; on the escalation path the number of hints is the
\* number of resolved fields, the list is empty iff the result is Empty and
\* hints_provided is true iff the result is Partial.
C17_OneHintPerResolvedField ==
    Len(fnOut) = 1 =>
        LET lines == fnOut[1].hints
        IN  /\ {lines[i].field : i \in DOMAIN lines} = {k \in HintFields : fnIn[k] # Null}
            /\ \A i, j \in DOMAIN lines : lines[i].field = lines[j].field => i = j
            /\ \A i \in DOMAIN lines :
                  /\ lines[i].label = "Suggested"
                  /\ lines[i].value = ValueText(fnIn[lines[i].field])
            /\ fnOut[1].escalated =>
                  /\ Len(lines) = ResolvedCount(fnIn)
                  /\ lines = << >> <=> ResolvedCount(fnIn) = 0
                  /\ fnOut[1].hints_provided <=> ResolvedCount(fnIn) \in 1..3

\* a result with the values 0.0 and false and no time score has got three
\* hints
C17_Witness ==
    /\ Len(fnOut) = 1
    /\ fnIn.business_value_score = Num(0)
    /\ fnIn.needs_reply = Bool(FALSE)
    /\ fnIn.time_sensitive_score = Null
    /\ fnIn.focus_summary_type = Str("General")
    /\ Len(fnOut[1].hints) = 3
    /\ fnOut[1].hints_provided

\* ---- the response validator ----

\* every record made of these values, with or without an unknown key, and
\* three values that are not records
ValidatorInputs ==
    LET optional(S) == {<<FALSE, Null>>} \cup {<<TRUE, v>> : v \in S}
        scores == {Num(-10), Num(0), Num(50), Num(100), Num(150), Str("1.0")}
        make(nr, ts, bv, fs, rs, ex) ==
            LET given == {c \in {<<"needs_reply", nr>>, <<"time_sensitive_score", ts>>,
                                 <<"business_value_score", bv>>,
                                 <<"focus_summary_type", fs>>, <<"reason", rs>>,
                                 <<"extra_field", ex>>} : c[2][1]}
            IN  Obj([k \in {c[1] : c \in given} |->
                        (CHOOSE c \in given : c[1] = k)[2][2]])
    IN  {make(nr, ts, bv, fs, rs, ex) :
            nr \in optional({Bool(TRUE), Bool(FALSE), Str("true"), Null}),
            ts \in optional(scores),
            bv \in optional(scores),
            fs \in optional({Str("Booking"), Str("General"), Str("Unknown"), Num(1)}),
            rs \in optional({Str(""), Str("ok"), Num(1)}),
            ex \in optional({Str("this should be ignored")})}
        \cup {Null, Num(1), Str("text")}

InitValidate == FunctionInit(ValidatorInputs)

\* validateClassification(data)
ApplyValidate ==
    /\ pc = "function"
    /\ Len(fnOut) = 0
    /\ fnOut' = <<validateClassification(fnIn)>>
    /\ UNCHANGED <<fnIn, handlerVars>>

\* validateClassification(validateClassification(data))
ApplyValidateAgain ==
    /\ pc = "function"
    /\ Len(fnOut) = 1
    /\ fnOut[1].ok
    /\ fnOut' = Append(fnOut, validateClassification(fnOut[1].value))
    /\ UNCHANGED <<fnIn, handlerVars>>

NextValidate ==
    \/ ApplyValidate
    \/ ApplyValidateAgain

SpecValidate == InitValidate /\ [][NextValidate]_vars

\* what the schema asks of a record, in the words of the claim
MeetsSchema(data) ==
    /\ data.t = "object"
    /\ SchemaKeys \subseteq DOMAIN data.o
    /\ data.o["needs_reply"].t = "boolean"
    /\ \A k \in {"time_sensitive_score", "business_value_score"} :
          /\ data.o[k].t = "number"
          /\ 0 <= data.o[k].n
          /\ data.o[k].n <= 100
    /\ data.o["focus_summary_type"] \in
          {Str(c) : c \in {"Booking", "Collab", "Brand reaching", "Feature", "Invoice",
                           "Refund", "Affiliate", "General"}}
    /\ data.o["reason"].t = "string"
    /\ data.o["reason"].s # ""

\* C7: validateClassification accepts a record iff needs_reply is a boolean,
\* both scores are numbers within [0, 1] inclusive, focus_summary_type is
\* one of the eight categories and reason is a string of length >= 1; any
\* other input raises an error and returns no record.
C7_AcceptsIffSchema ==
    Len(fnOut) >= 1 =>
        /\ fnOut[1].ok <=> MeetsSchema(fnIn)
        /\ ~fnOut[1].ok => fnOut[1].value = Null /\ fnOut[1].issues # {}

\* a record with a score on the boundary 1.0 and a mid-range score 0.5 has
\* been accepted
C7_Witness ==
    /\ Len(fnOut) = 1
    /\ fnOut[1].ok
    /\ fnIn.t = "object"
    /\ fnIn.o["time_sensitive_score"] = Num(100)
    /\ fnIn.o["business_value_score"] = Num(50)

\* C8: for every record validateClassification accepts, the returned record
\* has exactly the five schema fields with the values of the input and no
\* other field, and validating the returned record returns it unchanged.
C8_StripsAndIsIdempotent ==
    /\ (Len(fnOut) >= 1 /\ fnOut[1].ok) =>
          /\ fnOut[1].value.t = "object"
          /\ DOMAIN fnOut[1].value.o = SchemaKeys
          /\ \A k \in SchemaKeys : fnOut[1].value.o[k] = fnIn.o[k]
    /\ Len(fnOut) = 2 => fnOut[2].ok /\ fnOut[2].value = fnOut[1].value

\* a record with an unknown key has been validated twice
C8_Witness ==
    /\ Len(fnOut) = 2
    /\ fnIn.t = "object"
    /\ "extra_field" \in DOMAIN fnIn.o
    /\ fnOut[2].ok

\* ---- the rule classifier ----

\* the words the messages given to the rule classifier are made of
ClassifierVocabulary ==
    {"book", "invoice", "refund", "partnership", "brand", "shop", "love", "ASAP",
     "Today", "tonight", "confirm", "rate", "thanks", "please", "?", "hello", "by",
     "Friday"}

\* "Your work is amazing, can you confirm Friday?"
GuardExampleTexts ==
    {<<"Your", "work", "is", "amazing", ",", "can", "you", "confirm", "Friday", "?">>}

ClassifierTexts ==
    SeqsUpTo(ClassifierVocabulary, MaxLen) \cup ExampleTexts \cup GuardExampleTexts

InitClassify == FunctionInit(ClassifierTexts)

\* heuristicClassify(text)
ApplyClassify ==
    /\ pc = "function"
    /\ Len(fnOut) = 0
    /\ fnOut' = <<heuristicClassify(fnIn)>>
    /\ UNCHANGED <<fnIn, handlerVars>>

SpecClassify == InitClassify /\ [][ApplyClassify]_vars

\* the business tiers (1 = High ... 4 = Low) that have a rule whose matcher
\* and guard both hold on the text
FiringBusinessTiers(text) ==
    {t \in 1..4 :
        \E r \in DOMAIN BUSINESS_PATTERNS[t].patterns :
            /\ RegexTest(BUSINESS_PATTERNS[t].patterns[r].regex, toLowerCase(text))
            /\ ConditionHolds(BUSINESS_PATTERNS[t].patterns[r], text)}

\* C10: classifyBusinessValue returns the score of the first of the tiers
\* High (1.0), Medium-High (0.7), Medium (0.4), Low (0.0) that has a rule
\* whose matcher and guard both hold, and null when no tier has one.
C10_FirstBusinessTierWins ==
    Len(fnOut) = 1 =>
        LET firing == FiringBusinessTiers(fnIn)
            first == CHOOSE t \in firing : \A u \in firing : t <= u
        IN  fnOut[1].business_value_score =
                IF firing = {} THEN Null ELSE Num(<<100, 70, 40, 0>>[first])

\* a message that matches rules of the tiers Medium-High, Medium and Low has
\* got the score 0.7
C10_Witness ==
    /\ Len(fnOut) = 1
    /\ FiringBusinessTiers(fnIn) = {2, 3, 4}
    /\ fnOut[1].business_value_score = Num(70)

\* the rules of business tier t whose matcher and guard both hold on the text
FiringRules(t, text) ==
    {r \in DOMAIN BUSINESS_PATTERNS[t].patterns :
        /\ RegexTest(BUSINESS_PATTERNS[t].patterns[r].regex, toLowerCase(text))
        /\ ConditionHolds(BUSINESS_PATTERNS[t].patterns[r], text)}

\* C11: focus_summary_type is the category of the first matching rule of
\* the tier that supplied business_value_score: the category belongs to
\* that tier, and focus_summary_type is null iff business_value_score is.
C11_FocusFollowsBusinessTier ==
    Len(fnOut) = 1 =>
        LET firing == FiringBusinessTiers(fnIn)
            first == CHOOSE t \in firing : \A u \in firing : t <= u
            rule == CHOOSE r \in FiringRules(first, fnIn) :
                        \A q \in FiringRules(first, fnIn) : r <= q
        IN  /\ fnOut[1].focus_summary_type = Null <=> fnOut[1].business_value_score = Null
            /\ firing # {} =>
                  /\ fnOut[1].business_value_score = Num(BUSINESS_PATTERNS[first].score)
                  /\ fnOut[1].focus_summary_type =
                        Str(BUSINESS_PATTERNS[first].patterns[rule].type)

\* a message that names an invoice before a booking, and praise, has got
\* the category of the first rule of the High tier
C11_Witness ==
    /\ Len(fnOut) = 1
    /\ fnIn = <<"invoice", "book", "love">>
    /\ FiringBusinessTiers(fnIn) = {1, 4}
    /\ FiringRules(1, fnIn) = {1, 2}
    /\ fnOut[1].focus_summary_type = Str("Booking")
    /\ fnOut[1].business_value_score = Num(100)

\* the time tiers (1 = Urgent ... 4 = Casual) whose pattern and guard both
\* hold on the text
FiringTimeTiers(text) ==
    {t \in 1..4 :
        /\ RegexTest(TIME_PATTERNS[t].regex, toLowerCase(text))
        /\ ConditionHolds(TIME_PATTERNS[t], text)}

\* C13: classifyReplyNeeded tests the needs-reply trigger first: it returns
\* true whenever that trigger matches, also when the no-reply trigger
\* matches too; false only when the needs-reply trigger does not match and
\* the no-reply trigger and its guard hold; null otherwise.
C13_NeedsReplyBeforeNoReply ==
    Len(fnOut) = 1 =>
        LET needs == RegexTest(NEEDS_REPLY.regex, toLowerCase(fnIn))
            noReply == RegexTest(NO_REPLY.regex, toLowerCase(fnIn)) /\ NoQuestion(fnIn)
        IN  /\ needs => fnOut[1].needs_reply = Bool(TRUE)
            /\ fnOut[1].needs_reply = Bool(FALSE) <=> (~needs /\ noReply)
            /\ fnOut[1].needs_reply = Null <=> (~needs /\ ~noReply)

\* a message of thanks that also says please has got needs_reply true
C13_Witness ==
    /\ Len(fnOut) = 1
    /\ fnIn = <<"thanks", "please">>
    /\ RegexTest(NO_REPLY.regex, toLowerCase(fnIn))
    /\ NoQuestion(fnIn)
    /\ fnOut[1].needs_reply = Bool(TRUE)

\* C14: for a message that holds a question mark the Low business tier, the
\* Casual time tier and the no-reply rule do not fire: the rules give it
\* neither business_value_score 0.0 nor time_sensitive_score 0.0 nor
\* needs_reply false, whatever praise words it holds.
C14_QuestionMarkGuard ==
    (Len(fnOut) = 1 /\ \E i \in DOMAIN fnIn : fnIn[i] = "?") =>
        /\ 4 \notin FiringBusinessTiers(fnIn)
        /\ ~testPattern(CASUAL, fnIn, toLowerCase(fnIn))
        /\ ~testPattern(NO_REPLY, fnIn, toLowerCase(fnIn))
        /\ fnOut[1].business_value_score # Num(0)
        /\ fnOut[1].time_sensitive_score # Num(0)
        /\ fnOut[1].needs_reply # Bool(FALSE)

\* "Your work is amazing, can you confirm Friday?" has been classified: no
\* business score, needs_reply true
C14_Witness ==
    /\ Len(fnOut) = 1
    /\ fnIn \in GuardExampleTexts
    /\ RegexTest(LOW_VALUE.patterns[1].regex, toLowerCase(fnIn))
    /\ fnOut[1].business_value_score = Null
    /\ fnOut[1].time_sensitive_score = Num(70)
    /\ fnOut[1].needs_reply = Bool(TRUE)

\* C27: every message that holds a question mark gets needs_reply true; a
\* message gets needs_reply false only if it holds none; and whenever
\* classifyReplyNeeded comes to evaluate the guard of the no-reply rule (the
\* needs-reply rule has not matched, the no-reply expression has), the guard
\* holds.
C27_QuestionMarkNeedsReply ==
    Len(fnOut) = 1 =>
        LET lower == toLowerCase(fnIn)
            guardEvaluated == /\ ~testPattern(NEEDS_REPLY, fnIn, lower)
                              /\ RegexTest(NO_REPLY.regex, lower)
        IN  /\ (\E i \in DOMAIN fnIn : fnIn[i] = "?") => fnOut[1].needs_reply = Bool(TRUE)
            /\ fnOut[1].needs_reply = Bool(FALSE) => \A i \in DOMAIN fnIn : fnIn[i] # "?"
            /\ guardEvaluated => ConditionHolds(NO_REPLY, fnIn)

\* thanks followed by a question mark has got needs_reply true, with no
\* other needs-reply word in it
C27_Witness ==
    /\ Len(fnOut) = 1
    /\ fnIn = <<"thanks", "?">>
    /\ RegexTest(NO_REPLY.regex, toLowerCase(fnIn))
    /\ fnOut[1].needs_reply = Bool(TRUE)

\* the text holds one of the words, in any letter case
Mentions(text, words) == \E i \in DOMAIN text : LowerTok(text[i]) \in words

\* the text holds "by" followed by the name of a day of the week
HasDayDeadline(text) ==
    \E i \in DOMAIN text :
        /\ i < Len(text)
        /\ LowerTok(text[i]) = "by"
        /\ LowerTok(text[i + 1]) \in
              {"monday", "tuesday", "wednesday", "thursday", "friday", "saturday", "sunday"}

\* C15: a message that holds the keyword "ASAP", "today" or "tonight", in
\* any letter case, or a day-of-week deadline phrase, gets
\* time_sensitive_score 1.0 whatever other time patterns it matches.
C15_UrgencyResolvesToOne ==
    (Len(fnOut) = 1 /\ (Mentions(fnIn, {"asap", "today", "tonight"}) \/ HasDayDeadline(fnIn))) =>
        fnOut[1].time_sensitive_score = Num(100)

\* "by Friday confirm", which also matches the Soon tier, has got 1.0
C15_Witness ==
    /\ Len(fnOut) = 1
    /\ fnIn = <<"by", "Friday", "confirm">>
    /\ FiringTimeTiers(fnIn) = {1, 2}
    /\ fnOut[1].time_sensitive_score = Num(100)

\* C16: a message that holds a word of the book family gets business score
\* 1.0 and the category Booking; one of the invoice/payment family and none
\* of the book family, 1.0 and Invoice; "refund" and none of the two other
\* families, 1.0 and Refund.
C16_HighValueKeywords ==
    Len(fnOut) = 1 =>
        LET book == Mentions(fnIn, {"book", "booking", "reserve", "hire", "event", "gig",
                                    "performance", "rate"})
            invoice == Mentions(fnIn, {"invoice", "payment", "paid", "pay"})
            refund == Mentions(fnIn, {"refund"})
            category == IF book THEN "Booking" ELSE IF invoice THEN "Invoice" ELSE "Refund"
        IN  (book \/ invoice \/ refund) =>
                /\ fnOut[1].business_value_score = Num(100)
                /\ fnOut[1].focus_summary_type = Str(category)

\* a refund message that also names an invoice and a partnership has got
\* 1.0 and Invoice
C16_Witness ==
    /\ Len(fnOut) = 1
    /\ fnIn = <<"refund", "invoice", "partnership">>
    /\ fnOut[1].business_value_score = Num(100)
    /\ fnOut[1].focus_summary_type = Str("Invoice")

\* ---- the prompt builder ----

MaxShots == 3

\* retrieved examples: a message, its gold classification, its similarity
ShotExamples ==
    {[message |-> "ex1", classification |-> GoldClassification("Booking", 100),
      similarity |-> [threw |-> FALSE, d |-> 1, q |-> 1]],
     [message |-> "ex2", classification |-> GoldClassification("Collab", 70),
      similarity |-> [threw |-> FALSE, d |-> 1, q |-> 2]],
     [message |-> "ex3", classification |-> GoldClassification("General", 0),
      similarity |-> [threw |-> FALSE, d |-> 0, q |-> 1]]}

\* hint lists buildHintsFromHeuristic returns: none, one, two and four hints
HintLists ==
    {buildHintsFromHeuristic(h) :
        h \in {EmptyHeuristic,
               [EmptyHeuristic EXCEPT !.needs_reply = Bool(TRUE)],
               [EmptyHeuristic EXCEPT !.business_value_score = Num(70),
                                      !.focus_summary_type = Str("Collab")],
               [business_value_score |-> Num(100), time_sensitive_score |-> Num(0),
                needs_reply |-> Bool(FALSE), focus_summary_type |-> Str("Booking"),
                reason |-> Null]}}

PromptInputs ==
    [message : {<<"hello">>, <<"book", "?">>},
     examples : SeqsUpTo(ShotExamples, MaxShots),
     hints : HintLists]

InitPrompt == FunctionInit(PromptInputs)

ApplyBuildPrompt ==
    /\ pc = "function"
    /\ Len(fnOut) = 0
    /\ fnOut' = <<buildPromptWithExamples(fnIn.message, fnIn.examples, fnIn.hints)>>
    /\ UNCHANGED <<fnIn, handlerVars>>

SpecPrompt == InitPrompt /\ [][ApplyBuildPrompt]_vars

\* C24: with n > 0 examples the prompt is the preamble, the n examples in
\* the order given, numbered from 1, each with its message and its
\* classification, the separator, the instruction with the message to
\* classify, and last the hint block if and only if the hint list is not
\* empty; with no example it is the instruction and the optional hint block,
\* without preamble and without separator.
C24_PromptOrder ==
    Len(fnOut) = 1 =>
        LET prompt == fnOut[1]
            n == Len(fnIn.examples)
            lead == IF n > 0 THEN n + 2 ELSE 0
        IN  /\ Len(prompt) = lead + 1 + (IF Len(fnIn.hints) > 0 THEN 1 ELSE 0)
            /\ n > 0 =>
                  /\ prompt[1] = [part |-> "preamble"]
                  /\ \A i \in 1..n :
                        /\ prompt[1 + i].part = "example"
                        /\ prompt[1 + i].number = i
                        /\ prompt[1 + i].message = fnIn.examples[i].message
                        /\ prompt[1 + i].classification = fnIn.examples[i].classification
                  /\ prompt[n + 2] = [part |-> "separator"]
            /\ n = 0 =>
                  \A i \in DOMAIN prompt : prompt[i].part \notin {"preamble", "separator"}
            /\ prompt[lead + 1] = [part |-> "instruction", message |-> fnIn.message]
            /\ Len(fnIn.hints) > 0 =>
                  prompt[lead + 2] = [part |-> "hints", lines |-> fnIn.hints]

\* a prompt with two examples and two hints has been built: six parts, the
\* hint block last
C24_Witness ==
    /\ Len(fnOut) = 1
    /\ Len(fnIn.examples) = 2
    /\ fnIn.examples[1].message = "ex3"
    /\ Len(fnIn.hints) = 2
    /\ Len(fnOut[1]) = 6
    /\ fnOut[1][2].message = "ex3"
    /\ fnOut[1][6].part = "hints"

\* ---- the rule classifier on two messages ----

\* words of business tiers and of time tiers, and the question mark
PairVocabulary == {"book", "partnership", "love", "ASAP", "confirm", "rate", "?"}

PairTexts == SeqsUpTo(PairVocabulary, MaxPairLen)

InitClassifyPair == FunctionInit(PairTexts \X PairTexts)

\* heuristicClassify on each of the two messages
ApplyClassifyPair ==
    /\ pc = "function"
    /\ Len(fnOut) = 0
    /\ fnOut' = <<heuristicClassify(fnIn[1]), heuristicClassify(fnIn[2])>>
    /\ UNCHANGED <<fnIn, handlerVars>>

SpecClassifyPair == InitClassifyPair /\ [][ApplyClassifyPair]_vars

\* C12: classifyTimeSensitivity returns the score of the first of Urgent
\* (1.0), Soon (0.7), Planning (0.4), Casual (0.0) whose pattern and guard
\* hold, null if none holds; two messages with the same firing time tiers
\* get the same time_sensitive_score whatever business tier each matches.
C12_TimeWalkIsIndependent ==
    Len(fnOut) = 2 =>
        /\ \A i \in 1..2 :
              LET firing == FiringTimeTiers(fnIn[i])
                  first == CHOOSE t \in firing : \A u \in firing : t <= u
              IN  fnOut[i].time_sensitive_score =
                      IF firing = {} THEN Null ELSE Num(<<100, 70, 40, 0>>[first])
        /\ FiringTimeTiers(fnIn[1]) = FiringTimeTiers(fnIn[2]) =>
              fnOut[1].time_sensitive_score = fnOut[2].time_sensitive_score

\* an urgent booking and an urgent partnership message, which also match the
\* Soon tier, have both got the time score 1.0 and different business scores
C12_Witness ==
    /\ Len(fnOut) = 2
    /\ fnIn = << <<"confirm", "book">>, <<"partnership", "confirm">> >>
    /\ FiringTimeTiers(fnIn[1]) = {2}
    /\ fnOut[1].time_sensitive_score = Num(70)
    /\ fnOut[2].time_sensitive_score = Num(70)
    /\ fnOut[1].business_value_score = Num(100)
    /\ fnOut[2].business_value_score = Num(70)

\* ---- cosine ----

MaxDim == 2

\* vectors of at most MaxDim components, the empty vector and the all-zero
\* vectors among them
CosineVectors == SeqsUpTo({-1, 0, 1, 2}, MaxDim)

InitCosine == FunctionInit(CosineVectors \X CosineVectors)

ApplyCosine ==
    /\ pc = "function"
    /\ Len(fnOut) = 0
    /\ fnOut' = <<cosine(fnIn[1], fnIn[2])>>
    /\ UNCHANGED <<fnIn, handlerVars>>

SpecCosine == InitCosine /\ [][ApplyCosine]_vars

\* every component is zero (so is the norm); true of the empty vector
AllZero(v) == \A i \in DOMAIN v : v[i] = 0

\* C25: for every two vectors of different lengths, an empty or all-zero
\* one included, cosine throws and returns no number.
C25_LengthMismatchThrows ==
    (Len(fnOut) = 1 /\ Len(fnIn[1]) # Len(fnIn[2])) => fnOut[1].threw

\* cosine of the empty vector and an all-zero vector of one component has thrown
C25_Witness ==
    /\ Len(fnOut) = 1
    /\ fnIn = << << >>, <<0>> >>
    /\ fnOut[1].threw

\* C26: for two vectors of the same length of which one has norm zero (all
\* its components are zero, or both vectors are empty) cosine returns the
\* number 0: it does not throw and forms no quotient with a zero divisor.
C26_ZeroNormGivesZero ==
    (Len(fnOut) = 1 /\ Len(fnIn[1]) = Len(fnIn[2]) /\ (AllZero(fnIn[1]) \/ AllZero(fnIn[2]))) =>
        /\ ~fnOut[1].threw
        /\ fnOut[1].d = 0
        /\ fnOut[1].q > 0

\* cosine of <<1, 2>> and the all-zero vector of two components is 0
C26_Witness ==
    /\ Len(fnOut) = 1
    /\ fnIn = << <<1, 2>>, <<0, 0>> >>
    /\ fnOut[1] = [threw |-> FALSE, d |-> 0, q |-> 1]

\* cosine of the two empty vectors is 0
C26_WitnessEmpty ==
    /\ Len(fnOut) = 1
    /\ fnIn = << << >>, << >> >>
    /\ fnOut[1] = [threw |-> FALSE, d |-> 0, q |-> 1]

\* ---- the similarity retriever ----

RetrieverVectors == {<<1, 0>>, <<1, 1>>, <<0, 1>>, <<-1, 0>>, <<0, 0>>}

ExampleNames == <<"ex1", "ex2", "ex3", "ex4", "ex5", "ex6">>

\* every corpus of at most MaxCorpus examples with these embeddings; the
\* message of an example tells it from the others
RetrieverCorpora ==
    {[i \in 1..Len(es) |->
         [message |-> ExampleNames[i],
          classification |-> GoldClassification("General", 0),
          embedding |-> es[i]]] : es \in SeqsUpTo(RetrieverVectors, MaxCorpus)}

\* the argument k: not given, or a number
KArgs ==
    {[given |-> FALSE, n |-> 0]} \cup {[given |-> TRUE, n |-> x] : x \in {0, 1, 2, 5}}

\* a message embedding, of the dimension of the corpus or not, and k
RetrieverInputs == [embedding : RetrieverVectors \cup {<<1>>}, k : KArgs]

InitRetrieve ==
    /\ fnIn \in RetrieverInputs
    /\ fnOut = << >>
    /\ corpus \in RetrieverCorpora
    /\ pc = "function"
    /\ message = MsgOther("undefined", 0)
    /\ sanitizedMessage = << >>
    /\ heuristic = EmptyHeuristic
    /\ similarExamples = << >>
    /\ usedEmbeddings = FALSE
    /\ hints = << >>
    /\ userPrompt = << >>
    /\ completion = Pending
    /\ rawResponse = Null
    /\ classification = Null
    /\ responses = << >>
    /\ embedCalls = 0
    /\ llmCalls = 0
    /\ embedFailed = FALSE
    /\ msgEmbedding = NoEmbedding
    /\ requests = << >>

\* findSimilarExamples(message, messageEmbedding, k) on the loaded corpus
ApplyFindSimilar ==
    /\ Len(fnOut) = 0
    /\ fnOut' = <<findSimilarExamples(corpus, fnIn.embedding, DefaultK(fnIn.k))>>
    /\ UNCHANGED <<fnIn, handlerVars>>

SpecRetrieve == InitRetrieve /\ [][ApplyFindSimilar]_vars

\* C19: on a corpus of n > 0 examples findSimilarExamples returns
\* min(k, n) hits (k is 3 when not given), each hit a corpus example with
\* its similarity to the message embedding, in non-increasing order of
\* similarity, and no example left out is strictly more similar than a
\* returned one.
C19_TopKBySimilarity ==
    (Len(fnOut) = 1 /\ Len(corpus) > 0 /\ ~fnOut[1].threw) =>
        LET found == fnOut[1].value
            k == IF fnIn.k.given THEN fnIn.k.n ELSE 3
            sim(j) == cosine(corpus[j].embedding, fnIn.embedding)
            returned == {j \in DOMAIN corpus :
                            \E i \in DOMAIN found : found[i].message = corpus[j].message}
        IN  /\ Len(found) = Min(k, Len(corpus))
            /\ Cardinality(returned) = Len(found)
            /\ \A i \in DOMAIN found :
                  \E j \in DOMAIN corpus :
                      /\ found[i].message = corpus[j].message
                      /\ found[i].classification = corpus[j].classification
                      /\ found[i].similarity = sim(j)
            /\ \A i, j \in DOMAIN found :
                  i < j => ~SimGreater(found[j].similarity, found[i].similarity)
            /\ \A j \in DOMAIN corpus \ returned :
                  \A i \in DOMAIN found : ~SimGreater(sim(j), found[i].similarity)

\* from a corpus of four examples of four different similarities the three
\* most similar have been returned for the default k, the best one first
C19_Witness ==
    /\ Len(fnOut) = 1
    /\ ~fnIn.k.given
    /\ fnIn.embedding = <<1, 0>>
    /\ Len(corpus) = 4
    /\ [j \in 1..4 |-> corpus[j].embedding] = << <<-1, 0>>, <<0, 1>>, <<1, 0>>, <<1, 1>> >>
    /\ ~fnOut[1].threw
    /\ [i \in 1..3 |-> fnOut[1].value[i].message] = <<"ex3", "ex4", "ex2">>

\* ---- the service without a corpus ----

\* the artifacts that leave examplesWithEmbeddings empty
UnloadedArtifacts == {artifact \in Artifacts : Len(LoadCorpus(artifact)) = 0}

\* The service starts on such an artifact; a message embedding and an
\* argument k are at hand for a call of the retriever.
InitNoCorpus ==
    /\ \E artifact \in UnloadedArtifacts : corpus = LoadCorpus(artifact)
    /\ fnIn \in [embedding : {<<1, 0>>, << >>},
                  k : {arg \in KArgs : ~arg.given \/ arg.n \in {0, 2}}]
    /\ fnOut = << >>
    /\ pc = "idle"
    /\ message = MsgOther("undefined", 0)
    /\ sanitizedMessage = << >>
    /\ heuristic = EmptyHeuristic
    /\ similarExamples = << >>
    /\ usedEmbeddings = FALSE
    /\ hints = << >>
    /\ userPrompt = << >>
    /\ completion = Pending
    /\ rawResponse = Null
    /\ classification = Null
    /\ responses = << >>
    /\ embedCalls = 0
    /\ llmCalls = 0
    /\ embedFailed = FALSE
    /\ msgEmbedding = NoEmbedding
    /\ requests = << >>

\* With no example loaded areEmbeddingsAvailable() is false, so the handler
\* never awaits the embedding call: its steps are the arrival of the request
\* and the two outcomes of the model call.
NextNoCorpus ==
    \/ Receive
    \/ CompletionResolves
    \/ CompletionRejects
    \/ ApplyFindSimilar

SpecNoCorpus == InitNoCorpus /\ [][NextNoCorpus]_vars

\* the request held a valid message (the handler has its sanitized text) and
\* the rule result for it is not conclusive
Escalates ==
    /\ Len(sanitizedMessage) > 0
    /\ ResolvedCount(heuristic) < 4

(***************************************************************************)
(* Properties of POST /classify, under Spec.                               *)
(***************************************************************************)
HasClassification(r) == "classification" \in DOMAIN r.body

\* metadata.method of a response; "none" for a response without metadata
Method(r) == IF "metadata" \in DOMAIN r.body THEN r.body.metadata.method ELSE "none"

\* C2: whenever the rule classifier's result for a request is conclusive,
\* the request is answered with method "heuristic", the four returned
\* fields are the rule classifier's values, and neither the embedding
\* service nor the generative model is called.
C2_ConclusiveIsAnsweredByRules ==
    ResolvedCount(heuristic) = 4 =>
        /\ heuristic = heuristicClassify(sanitizedMessage)
        /\ pc = "done"
        /\ Len(responses) = 1
        /\ responses[1].status = 200
        /\ Method(responses[1]) = "heuristic"
        /\ \A k \in {"needs_reply", "time_sensitive_score", "business_value_score",
                     "focus_summary_type"} :
              responses[1].body.classification.o[k] = heuristic[k]
        /\ embedCalls = 0
        /\ llmCalls = 0

\* "Need to book you for Friday ASAP! Can you confirm?" has been answered
C2_Witness ==
    /\ pc = "done"
    /\ corpus # << >>
    /\ message = MsgText(<<"Need", "to", "book", "you", "for", "Friday", "ASAP", "!",
                           "Can", "you", "confirm", "?">>)
    /\ Method(responses[1]) = "heuristic"
    /\ responses[1].body.classification.o["focus_summary_type"] = Str("Booking")
    /\ responses[1].body.classification.o["time_sensitive_score"] = Num(100)
    /\ responses[1].body.classification.o["business_value_score"] = Num(100)
    /\ responses[1].body.classification.o["needs_reply"] = Bool(TRUE)

\* C3: a success response with method "llm" is sent only for a model reply
\* that parsed and passed validateClassification, and the classification in
\* it is the validator's output; a classification is returned by the
\* heuristic path or by this path only.
C3_ModelReplyIsValidated ==
    \A i \in DOMAIN responses :
        /\ HasClassification(responses[i]) => Method(responses[i]) \in {"heuristic", "llm"}
        /\ Method(responses[i]) = "llm" =>
              /\ completion.state = "resolved"
              /\ completion.content.json
              /\ validateClassification(completion.content.value).ok
              /\ responses[i].body.classification =
                    validateClassification(completion.content.value).value
              /\ classification = responses[i].body.classification

\* a reply with an unknown key has been validated and returned
C3_Witness ==
    /\ pc = "done"
    /\ Method(responses[1]) = "llm"
    /\ "extra_field" \in DOMAIN rawResponse.o
    /\ "extra_field" \notin DOMAIN responses[1].body.classification.o

\* the model call failed, or its output is no JSON, or the parsed output
\* does not meet the schema
ModelStageFailed ==
    \/ completion.state = "rejected"
    \/ /\ completion.state = "resolved"
       /\ \/ ~completion.content.json
          \/ ~MeetsSchema(completion.content.value)

\* C4: on the escalation path, if the model call fails, or its output is
\* not parseable JSON, or the parsed output fails schema validation, the
\* request ends with an error response that carries a message and no
\* classification.
C4_ModelFailureIsAnError ==
    ModelStageFailed =>
        /\ pc = "done"
        /\ Len(responses) = 1
        /\ responses[1].status \in {401, 500}
        /\ ~HasClassification(responses[1])
        /\ "success" \notin DOMAIN responses[1].body
        /\ "error" \in DOMAIN responses[1].body
        /\ responses[1].body.error # ""
        /\ responses[1].status = 500 =>
              \/ "message" \in DOMAIN responses[1].body
              \/ "details" \in DOMAIN responses[1].body /\ responses[1].body.details # {}

\* a reply with an out-of-range score has ended a request that had hints
C4_Witness ==
    /\ pc = "done"
    /\ completion.state = "resolved"
    /\ completion.content.json
    /\ rawResponse.t = "object"
    /\ "time_sensitive_score" \in DOMAIN rawResponse.o
    /\ rawResponse.o["time_sensitive_score"] = Num(150)
    /\ Len(hints) > 0
    /\ responses[1].status = 500

\* C5: a failure of the embedding call does not fail the request: the
\* handler goes on with zero examples, calls the model once, and a valid
\* model reply is returned with method "llm".
C5_EmbeddingFailureDegrades ==
    embedFailed =>
        /\ embedCalls = 1
        /\ llmCalls = 1
        /\ similarExamples = << >>
        /\ ~usedEmbeddings
        /\ completion.state = "pending" => pc = "awaitCompletion" /\ responses = << >>
        /\ ~ModelStageFailed /\ completion.state = "resolved" =>
              /\ Len(responses) = 1
              /\ Method(responses[1]) = "llm"
              /\ responses[1].body.metadata.similar_examples_count = 0
              /\ ~responses[1].body.metadata.similar_examples_used

\* after a failed embedding call the request has returned a model result
C5_Witness ==
    /\ embedFailed
    /\ pc = "done"
    /\ Method(responses[1]) = "llm"
    /\ responses[1].body.metadata.similar_examples_count = 0

\* C6: within one request the embedding service and the generative model
\* are each called at most once, and once either call has failed the
\* number of calls issued no longer changes.
C6_NoRetry ==
    /\ [](embedCalls <= 1 /\ llmCalls <= 1)
    /\ [][(embedFailed \/ completion.state = "rejected")
            => (embedCalls' = embedCalls /\ llmCalls' = llmCalls)]_vars

\* both calls of a request have failed, each issued once
C6_Witness ==
    /\ embedFailed
    /\ completion.state = "rejected"
    /\ pc = "done"
    /\ embedCalls = 1
    /\ llmCalls = 1

PartnershipMessage ==
    MsgText(<<"Love", "your", "work", "!", "Can", "we", "discuss", "a", "potential",
              "partnership", "?">>)

\* C18: for "Love your work! Can we discuss a potential partnership?" the
\* rule classifier resolves focus_summary_type "Collab" and
\* business_value_score 0.7, the result is Partial, and the request goes to
\* the generative model with hint lines for exactly the resolved fields.
C18_PartnershipEscalatesWithHints ==
    message = PartnershipMessage =>
        /\ heuristic.focus_summary_type = Str("Collab")
        /\ heuristic.business_value_score = Num(70)
        /\ ResolvedCount(heuristic) \in 1..3
        /\ \A i \in DOMAIN responses : Method(responses[i]) # "heuristic"
        /\ pc = "awaitEmbedding" => embedCalls = 1 /\ llmCalls = 0
        /\ pc \in {"awaitCompletion", "done"} =>
              /\ llmCalls = 1
              /\ {hints[i].field : i \in DOMAIN hints} =
                    {k \in HintFields : heuristic[k] # Null}
              /\ Len(hints) = ResolvedCount(heuristic)
              /\ userPrompt[Len(userPrompt)] = [part |-> "hints", lines |-> hints]

\* the request for this message has been answered by the model after a
\* prompt with examples and the three hints of the resolved fields
C18_Witness ==
    /\ message = PartnershipMessage
    /\ pc = "done"
    /\ usedEmbeddings
    /\ Method(responses[1]) = "llm"
    /\ responses[1].body.metadata.hints_provided
    /\ hints = <<Hint("business_value_score", Num(70)), Hint("needs_reply", Bool(TRUE)),
                 Hint("focus_summary_type", Str("Collab"))>>

\* C9 as stated: every returned classification has both scores in
\* {0.0, 0.4, 0.7, 1.0}.
C9_ScoresInClosedSet ==
    \A i \in DOMAIN responses :
        HasClassification(responses[i]) =>
            \A k \in {"time_sensitive_score", "business_value_score"} :
                responses[i].body.classification.o[k] \in {Num(0), Num(40), Num(70), Num(100)}

\* C9 as amended: every returned classification has both scores within
\* [0, 1]; on the heuristic path each is one of 0.0, 0.4, 0.7, 1.0.
C9_ScoresWithinUnitInterval ==
    \A i \in DOMAIN responses :
        HasClassification(responses[i]) =>
            \A k \in {"time_sensitive_score", "business_value_score"} :
                LET score == responses[i].body.classification.o[k]
                IN  /\ score.t = "number"
                    /\ 0 <= score.n
                    /\ score.n <= 100
                    /\ Method(responses[i]) = "heuristic" => score.n \in {0, 40, 70, 100}

\* a model reply with the score 0.5 has been returned
C9_Witness ==
    /\ pc = "done"
    /\ Method(responses[1]) = "llm"
    /\ responses[1].body.classification.o["time_sensitive_score"] = Num(50)

\* the message embedding and the embedding of some corpus example differ in
\* length: cosineSimilarity throws inside findSimilarExamples
RetrievalMismatch ==
    /\ msgEmbedding.assigned
    /\ \E i \in DOMAIN corpus : Len(corpus[i].embedding) # Len(msgEmbedding.vector)

\* C21: a vector-length mismatch during similarity retrieval is fatal to the
\* request: the request has ended in an error response and the generative
\* model has not been called.
C21_MismatchIsFatal ==
    RetrievalMismatch =>
        /\ pc = "done"
        /\ Len(responses) = 1
        /\ responses[1].status >= 400
        /\ llmCalls = 0

\* the request's message is null, undefined, not a string, longer than 5000
\* characters, or empty once sanitized
Unacceptable(msg) ==
    \/ msg.t # "string"
    \/ TextLength(msg.text) > 5000
    \/ Len(sanitizeMessage(msg)) = 0

\* C22: once the handler has taken a request whose message is null,
\* undefined, not a string, longer than 5000 characters or empty after
\* sanitization, the request is over with one 400 response, the rule
\* classifier has not run and no external call has been issued; a string of
\* at most 5000 characters (exactly 5000 included) that is not empty after
\* sanitization is accepted: the classifier has run on its sanitized text and
\* no 400 response is sent.
C22_InvalidInputIsRejectedFirst ==
    pc # "idle" =>
        IF Unacceptable(message)
        THEN /\ pc = "done"
             /\ Len(responses) = 1
             /\ responses[1].status = 400
             /\ "error" \in DOMAIN responses[1].body
             /\ sanitizedMessage = << >>
             /\ heuristic = EmptyHeuristic
             /\ embedCalls = 0
             /\ llmCalls = 0
        ELSE /\ sanitizedMessage = sanitizeMessage(message)
             /\ heuristic = heuristicClassify(sanitizedMessage)
             /\ \A i \in DOMAIN responses : responses[i].status # 400

\* a message of 5001 characters has been refused, and so has the number 7
C22_Witness ==
    /\ pc = "done"
    /\ message \in {MsgText(<<"x{4999}", "?", "?">>), MsgOther("number", 7)}
    /\ responses[1].status = 400
    /\ llmCalls = 0

\* a message of exactly 5000 characters has been accepted and classified
C22_WitnessAccepted ==
    /\ pc # "idle"
    /\ message = MsgText(<<"x{4999}", "?">>)
    /\ TextLength(message.text) = 5000
    /\ heuristic.needs_reply = Bool(TRUE)

\* C28: every classification returned with method "heuristic" is accepted
\* unchanged by validateClassification: both scores are numbers within
\* [0, 1], focus_summary_type is one of the eight categories of the schema
\* (as is every type of the pattern table), needs_reply is a boolean and the
\* reason is a non-empty string.
C28_HeuristicResultMeetsSchema ==
    /\ \A t \in DOMAIN BUSINESS_PATTERNS :
          \A i \in DOMAIN BUSINESS_PATTERNS[t].patterns :
              \E j \in DOMAIN FocusSummaryTypes :
                  BUSINESS_PATTERNS[t].patterns[i].type = FocusSummaryTypes[j]
    /\ \A i \in DOMAIN responses :
          Method(responses[i]) = "heuristic" =>
              LET result == responses[i].body.classification
                  checked == validateClassification(result)
              IN  /\ checked.ok
                  /\ checked.value = result
                  /\ \A k \in {"time_sensitive_score", "business_value_score"} :
                        /\ result.o[k].t = "number"
                        /\ 0 <= result.o[k].n
                        /\ result.o[k].n <= 100
                  /\ \E j \in DOMAIN FocusSummaryTypes :
                        result.o["focus_summary_type"] = Str(FocusSummaryTypes[j])
                  /\ result.o["needs_reply"].t = "boolean"
                  /\ result.o["reason"].t = "string"
                  /\ result.o["reason"].s # ""

\* a message of praise has been answered by the rules with both scores 0.0,
\* needs_reply false and the category General
C28_Witness ==
    /\ pc = "done"
    /\ message = MsgText(<<"love">>)
    /\ Method(responses[1]) = "heuristic"
    /\ responses[1].body.classification.o["business_value_score"] = Num(0)
    /\ responses[1].body.classification.o["needs_reply"] = Bool(FALSE)
    /\ responses[1].body.classification.o["reason"] =
           Str("Pattern-matched as general with clear indicators")

\* the kind of a response: input rejection, heuristic success, llm success,
\* error, or none of these
ResponseKind(r) ==
    IF r.status = 400 /\ "error" \in DOMAIN r.body THEN "input rejection"
    ELSE IF r.status = 200 /\ Method(r) = "heuristic" /\ HasClassification(r)
    THEN "heuristic success"
    ELSE IF r.status = 200 /\ Method(r) = "llm" /\ HasClassification(r) THEN "llm success"
    ELSE IF r.status \in {401, 500} /\ "error" \in DOMAIN r.body THEN "error"
    ELSE "other"

\* C29, under SpecLive: a request the handler has begun on comes to its end;
\* no response is sent before the end and exactly one has been sent at the
\* end, which is an input rejection, a heuristic success, an llm success or
\* an error response; nothing is sent after it.
C29_ExactlyOneResponse ==
    /\ [](pc # "done" => Len(responses) = 0)
    /\ [](pc = "done" =>
            /\ Len(responses) = 1
            /\ ResponseKind(responses[1]) \in
                   {"input rejection", "heuristic success", "llm success", "error"})
    /\ [][pc = "done" => responses' = responses]_vars
    /\ (pc \in {"awaitEmbedding", "awaitCompletion"}) ~> (pc = "done")

\* a request went through both awaits and ended with the 401 response of a
\* rejected model call, after examples had been retrieved
C29_Witness ==
    /\ pc = "done"
    /\ usedEmbeddings
    /\ completion.state = "rejected"
    /\ Len(responses) = 1
    /\ responses[1].status = 401

\* C30: the embedding service is called only for a request whose rule result
\* is not conclusive, on a service whose corpus is not empty; the model is
\* called only once the embedding attempt is over (the call has resolved or
\* rejected) or was skipped; an llm response after an attempt that did not
\* succeed (skipped, rejected, or retrieval threw) reports
\* similar_examples_used false and similar_examples_count 0, any other llm
\* response a count of at most 3.
C30_CallOrderAndExampleCount ==
    /\ embedCalls >= 1 =>
          /\ ResolvedCount(heuristic) < 4
          /\ Len(corpus) > 0
    /\ embedCalls <= 1
    /\ llmCalls >= 1 =>
          /\ pc \in {"awaitCompletion", "done"}
          /\ embedCalls = 0 \/ embedFailed \/ msgEmbedding.assigned
    /\ pc = "awaitEmbedding" => llmCalls = 0
    /\ \A i \in DOMAIN responses :
          Method(responses[i]) = "llm" =>
              LET metadata == responses[i].body.metadata
              IN  IF embedCalls = 0 \/ embedFailed \/ RetrievalMismatch
                  THEN /\ metadata.similar_examples_used = FALSE
                       /\ metadata.similar_examples_count = 0
                  ELSE /\ metadata.similar_examples_count <= 3
                       /\ metadata.similar_examples_count <= Len(corpus)

\* on a corpus of four examples an llm response reports three examples used
C30_Witness ==
    /\ pc = "done"
    /\ Len(corpus) = 4
    /\ embedCalls = 1
    /\ llmCalls = 1
    /\ Method(responses[1]) = "llm"
    /\ responses[1].body.metadata.similar_examples_used
    /\ responses[1].body.metadata.similar_examples_count = 3

\* C23, under SpecConcurrent: whatever the interleaving of the requests at
\* their awaits, every request that has ended has sent the responses it
\* sends when handled alone with the same message and the same settlements
\* of its calls, and examplesWithEmbeddings is, in content and order, what
\* was loaded.
C23_RequestsAreIndependent ==
    /\ corpus = GeneratedExamples
    /\ \A r \in RequestIds :
          requests[r].pc = "done" =>
              /\ Len(requests[r].responses) = 1
              /\ requests[r].responses =
                     Alone(requests[r].message, requests[r].embedding,
                           requests[r].completion, GeneratedExamples).responses

\* two requests were in flight together, each retrieved with an embedding of
\* its own, and both have been answered by the model
C23_Witness ==
    /\ \A r \in RequestIds : requests[r].pc = "done"
    /\ requests[2].concurrent
    /\ requests[1].embedding = [state |-> "resolved", vector |-> <<0, 1>>]
    /\ requests[2].embedding = [state |-> "resolved", vector |-> <<1, 0>>]
    /\ \A r \in {1, 2} :
          /\ requests[r].responses[1].status = 200
          /\ requests[r].responses[1].body.metadata.similar_examples_count = 3

====
